---- MODULE Spec2Model ----
(***************************************************************************)
(* Model of the nand2tetris Jack analyzer (10_compiler_i): the character   *)
(* level Tokenizer with its lookahead buffer, and the syntax elements that *)
(* resolve the Jack grammar against it.                                    *)
(*                                                                         *)
(* A character is a string of length one and a text is a sequence of       *)
(* characters, so that the Tokenizer can be modelled character by          *)
(* character as the code runs.                                             *)
(***************************************************************************)
EXTENDS Integers, Sequences, FiniteSets, TLC

(***************************************************************************)
(* Character classes (tokenizer.py, module string).                        *)
(***************************************************************************)
SYMBOLS ==
  {"{", "}", "(", ")", "[", "]", ".", ",", ";", "+", "-", "*", "/", "&",
   "|", "<", ">", "=", "~"}

KEYWORDS ==
  { <<"c","l","a","s","s">>,
    <<"c","o","n","s","t","r","u","c","t","o","r">>,
    <<"f","u","n","c","t","i","o","n">>,
    <<"m","e","t","h","o","d">>,
    <<"f","i","e","l","d">>,
    <<"s","t","a","t","i","c">>,
    <<"v","a","r">>,
    <<"i","n","t">>,
    <<"c","h","a","r">>,
    <<"b","o","o","l","e","a","n">>,
    <<"v","o","i","d">>,
    <<"t","r","u","e">>,
    <<"f","a","l","s","e">>,
    <<"n","u","l","l">>,
    <<"t","h","i","s">>,
    <<"l","e","t">>,
    <<"d","o">>,
    <<"i","f">>,
    <<"e","l","s","e">>,
    <<"w","h","i","l","e">>,
    <<"r","e","t","u","r","n">> }

\* The one element of a set of one element.  Only({e(x) : x \in {v}}) is
\* e(v) with v evaluated once, whatever the number of its uses in e.
Only(S) == CHOOSE x \in S : TRUE

\* string.digits
Digits == {"0", "1", "2", "3", "4", "5", "6", "7", "8", "9"}

\* string.whitespace (the vertical tab has no TLA+ escape and is left out)
Whitespace == {" ", "\t", "\n", "\r", "\f"}

Lower ==
  {"a","b","c","d","e","f","g","h","i","j","k","l","m","n","o","p","q","r",
   "s","t","u","v","w","x","y","z"}

Upper ==
  {"A","B","C","D","E","F","G","H","I","J","K","L","M","N","O","P","Q","R",
   "S","T","U","V","W","X","Y","Z"}

\* str.isalnum on the ASCII characters of the model
isalnum(c) == c \in Lower \cup Upper \cup Digits

DigitValue(c) ==
  CASE c = "0" -> 0 [] c = "1" -> 1 [] c = "2" -> 2 [] c = "3" -> 3
    [] c = "4" -> 4 [] c = "5" -> 5 [] c = "6" -> 6 [] c = "7" -> 7
    [] c = "8" -> 8 [] c = "9" -> 9

(***************************************************************************)
(* Python's int(token) on a pending token.  A pending token never holds a  *)
(* symbol (so no sign), a whitespace or a quote; on what is left int()     *)
(* accepts groups of digits joined by single underscores (PEP 515) and     *)
(* raises ValueError on everything else.                                   *)
(***************************************************************************)
RECURSIVE int_ok(_, _)
int_ok(token, i) ==
  IF i > Len(token) THEN token[Len(token)] \in Digits
  ELSE IF token[i] \in Digits THEN int_ok(token, i + 1)
  ELSE IF token[i] = "_"
    THEN i > 1 /\ token[i - 1] \in Digits /\ i < Len(token)
         /\ token[i + 1] \in Digits /\ int_ok(token, i + 1)
  ELSE FALSE

\* The value of the digits.  Python integers do not overflow; a value beyond
\* the range of the language is only ever compared with 32767, so the sum
\* stops growing once it is out of the range.
RECURSIVE int_value(_, _, _)
int_value(token, i, acc) ==
  IF i > Len(token) THEN acc
  ELSE IF token[i] = "_" \/ acc > 32767 THEN int_value(token, i + 1, acc)
  ELSE int_value(token, i + 1, acc * 10 + DigitValue(token[i]))

(***************************************************************************)
(* Token (tokenizer.py 10-16).  `at` is a history field the code does not  *)
(* have: the offset in the source file of the first character that went    *)
(* into the token, kept to state claims about source order.                *)
(***************************************************************************)
Token(type_, name, at) == [type |-> type_, name |-> name, at |-> at]

\* Python's None, as returned by peek and next at the end of the input
None == [type |-> "None", name |-> <<>>, at |-> -1]

\* a token without its history field
Plain(tok) == [type |-> tok.type, name |-> tok.name]

PlainSeq(toks) == [i \in 1..Len(toks) |-> Plain(toks[i])]

(***************************************************************************)
(* Tokenizer.__init__.  source_file is the open file: its text and the     *)
(* read position.  tstart is history: the file offset at which the pending *)
(* token_chars began.                                                      *)
(***************************************************************************)
Tokenizer(text) ==
  [ source_file     |-> [text |-> text, pos |-> 0],
    line_count      |-> 0,
    buffer          |-> <<>>,
    skip            |-> 0,
    p               |-> -1,
    token_chars     |-> <<>>,
    in_comment      |-> FALSE,
    multiline       |-> FALSE,
    in_string       |-> FALSE,
    buffered_tokens |-> <<>>,
    eof             |-> FALSE,
    tstart          |-> 0 ]

\* file.readline(): the characters up to and including the next newline,
\* or up to the end of the file; the empty text at the end of the file
readline(sf) ==
  LET n == Len(sf.text)
      ends == {j \in (sf.pos + 1)..n : sf.text[j] = "\n"}
      stop == IF ends = {} THEN n
              ELSE CHOOSE j \in ends : \A k \in ends : j <= k
  IN  [line |-> SubSeq(sf.text, sf.pos + 1, stop),
       sf   |-> [sf EXCEPT !.pos = stop]]

(***************************************************************************)
(* Tokenizer._get_typed_token_list, with _get_token inlined by the caller: *)
(* the classification of the flushed pending token.  err is the            *)
(* TokenizerError raised, "none" when none is.                             *)
(***************************************************************************)
get_typed_token_list(token, at) ==
  IF token = <<>> THEN [tokens |-> <<>>, err |-> "none"]
  ELSE IF token \in KEYWORDS
    THEN [tokens |-> <<Token("keyword", token, at)>>, err |-> "none"]
  ELSE IF int_ok(token, 1)
    THEN IF 0 <= int_value(token, 1, 0) /\ int_value(token, 1, 0) <= 32767
           THEN [tokens |-> <<Token("integerConstant", token, at)>>,
                 err |-> "none"]
           ELSE [tokens |-> <<>>, err |-> "Integer out of range"]
  ELSE IF token[1] \in Digits
    THEN [tokens |-> <<>>, err |-> "Identifier cannot start with a digit"]
  ELSE IF ~ \A i \in 1..Len(token) : isalnum(token[i]) \/ token[i] = "_"
    THEN [tokens |-> <<>>, err |-> "Identifier must be a sequence"]
  ELSE [tokens |-> <<Token("identifier", token, at)>>, err |-> "none"]

(***************************************************************************)
(* Tokenizer._next_char, lines 130-182: the character at self.p once the   *)
(* line is read.  The result is the Tokenizer after the call, the tokens   *)
(* returned and the TokenizerError raised ("none" when none is).           *)
(***************************************************************************)
Out(t, tokens, err) == [t |-> t, tokens |-> tokens, err |-> err]

\* the file offset of the character at self.p
char_at(t) == t.source_file.pos - Len(t.buffer) + t.p

\* self.buffer[p:p+2]
two_chars(t) ==
  SubSeq(t.buffer, t.p + 1,
         IF t.p + 2 <= Len(t.buffer) THEN t.p + 2 ELSE Len(t.buffer))

\* lines 131-140: inside a comment, is the comment ending?
in_comment_char(t) ==
  IF t.multiline
    THEN IF two_chars(t) = <<"*", "/">>
           THEN Out([t EXCEPT !.in_comment = FALSE, !.skip = 1], <<>>, "none")
           ELSE Out(t, <<>>, "none")
    ELSE IF t.buffer[t.p + 1] = "\n"
           THEN Out([t EXCEPT !.in_comment = FALSE], <<>>, "none")
           ELSE Out(t, <<>>, "none")

\* in_string_char with a string that only its closing quote ends
in_string_char_quote_only(t) ==
  LET char == t.buffer[t.p + 1] IN
  IF char = "\""
    THEN Out([t EXCEPT !.in_string = FALSE, !.token_chars = <<>>],
             <<Token("stringConstant", t.token_chars, t.tstart)>>, "none")
    ELSE Out([t EXCEPT !.token_chars = Append(@, char)], <<>>, "none")

\* lines 143-148: inside a string, is the string ending?
in_string_char(t) ==
  LET char == t.buffer[t.p + 1] IN
  IF char \in {"\"", "\n"}
    THEN Out([t EXCEPT !.in_string = FALSE, !.token_chars = <<>>],
             <<Token("stringConstant", t.token_chars, t.tstart)>>, "none")
    ELSE Out([t EXCEPT !.token_chars = Append(@, char)], <<>>, "none")

\* comment_start with the pending token left pending
comment_start_keeps_pending(t, multiline) ==
  Out([t EXCEPT !.in_comment = TRUE, !.multiline = multiline, !.skip = 1],
      <<>>, "none")

\* lines 151-163: a comment starts and ends the pending token
comment_start(t, multiline) ==
  LET typed == get_typed_token_list(t.token_chars, t.tstart) IN
  Out([t EXCEPT !.in_comment = TRUE, !.multiline = multiline, !.skip = 1,
                !.token_chars = <<>>],
      typed.tokens, typed.err)

\* lines 166-168: a string starts
string_start(t) ==
  Out([t EXCEPT !.in_string = TRUE,
                !.tstart = IF t.token_chars = <<>> THEN char_at(t) ELSE @],
      <<>>, "none")

\* symbol_char with the symbol returned before the pending token
symbol_char_symbol_first(t) ==
  LET typed == get_typed_token_list(t.token_chars, t.tstart) IN
  Out([t EXCEPT !.token_chars = <<>>],
      <<Token("symbol", <<t.buffer[t.p + 1]>>, char_at(t))>> \o typed.tokens,
      typed.err)

\* lines 171-173: a symbol ends the pending token and is a token itself
symbol_char(t) ==
  LET typed == get_typed_token_list(t.token_chars, t.tstart) IN
  Out([t EXCEPT !.token_chars = <<>>],
      typed.tokens \o <<Token("symbol", <<t.buffer[t.p + 1]>>, char_at(t))>>,
      typed.err)

\* lines 176-177: white space ends the pending token
whitespace_char(t) ==
  LET typed == get_typed_token_list(t.token_chars, t.tstart) IN
  Out([t EXCEPT !.token_chars = <<>>], typed.tokens, typed.err)

\* line 180: part of a keyword, constant or identifier
token_char(t) ==
  Out([t EXCEPT !.token_chars = Append(@, t.buffer[t.p + 1]),
                !.tstart = IF t.token_chars = <<>> THEN char_at(t) ELSE @],
      <<>>, "none")

\* process_char with the start of a comment looked for before the string
process_char_comment_first(t) ==
  LET char == t.buffer[t.p + 1] IN
  IF t.in_comment THEN in_comment_char(t)
  ELSE IF two_chars(t) = <<"/", "*">> THEN comment_start(t, TRUE)
  ELSE IF two_chars(t) = <<"/", "/">> THEN comment_start(t, FALSE)
  ELSE IF t.in_string THEN in_string_char(t)
  ELSE IF char = "\"" THEN string_start(t)
  ELSE IF char \in SYMBOLS THEN symbol_char(t)
  ELSE IF char \in Whitespace THEN whitespace_char(t)
  ELSE token_char(t)

\* lines 127-180: the character at self.p
process_char(t) ==
  LET char == t.buffer[t.p + 1] IN
  IF t.in_comment THEN in_comment_char(t)
  ELSE IF t.in_string THEN in_string_char(t)
  ELSE IF two_chars(t) = <<"/", "*">> THEN comment_start(t, TRUE)
  ELSE IF two_chars(t) = <<"/", "/">> THEN comment_start(t, FALSE)
  ELSE IF char = "\"" THEN string_start(t)
  ELSE IF char \in SYMBOLS THEN symbol_char(t)
  ELSE IF char \in Whitespace THEN whitespace_char(t)
  ELSE token_char(t)

\* lines 119-125: read the next line if the previous line is finished
read_line(t) ==
  Only({ IF rl.line = <<>>
           THEN Out([t EXCEPT !.line_count = @ + 1, !.buffer = rl.line,
                              !.source_file = rl.sf, !.eof = TRUE],
                    <<>>, "none")
           ELSE Only({ process_char(t2) :
                       t2 \in {[t EXCEPT !.line_count = @ + 1,
                                         !.buffer = rl.line,
                                         !.source_file = rl.sf, !.p = 0]} })
         : rl \in {readline(t.source_file)} })

\* Tokenizer._next_char, lines 107-128 and then the character
next_char(t0) ==
  Only({ IF t1.skip > 0 THEN Out([t1 EXCEPT !.skip = @ - 1], <<>>, "none")
         ELSE IF t1.p = Len(t1.buffer) THEN read_line(t1)
         ELSE process_char(t1)
         : t1 \in {[t0 EXCEPT !.p = @ + 1]} })

(***************************************************************************)
(* Tokenizer.next and Tokenizer.peek.  The result is the Tokenizer after   *)
(* the call, the token returned (None at the end of the input) and how the *)
(* call ended: exc is "none" when it returned, "TokenizerError" when a     *)
(* lexical error was raised (msg says which) and "diverges" when the call  *)
(* never returns.                                                          *)
(***************************************************************************)
Ret(t, tok) == [t |-> t, tok |-> tok, exc |-> "none", msg |-> ""]

Raise(t, exc, msg) == [t |-> t, tok |-> None, exc |-> exc, msg |-> msg]

\* lines 91-97: while not self.eof
RECURSIVE next_loop(_)
next_loop(t) ==
  IF t.eof THEN Ret(t, None)
  ELSE Only({ IF r.err # "none" THEN Raise(r.t, "TokenizerError", r.err)
              ELSE IF r.tokens # <<>>
                THEN Ret([r.t EXCEPT !.buffered_tokens =
                                        @ \o Tail(r.tokens)],
                         Head(r.tokens))
              ELSE next_loop(r.t)
              : r \in {next_char(t)} })

\* Tokenizer.next
Tokenizer_next(t) ==
  IF t.buffered_tokens # <<>>
    THEN Ret([t EXCEPT !.buffered_tokens = Tail(@)], Head(t.buffered_tokens))
    ELSE next_loop(t)

\* appendleft with the token put at the right end of the deque
appendleft_as_append(buffered_tokens, token) == buffered_tokens \o <<token>>

\* line 80: self.buffered_tokens.appendleft(token)
appendleft(buffered_tokens, token) == <<token>> \o buffered_tokens

\* Tokenizer.peek, lines 75-83.  An iteration of the while loop that ends in
\* the state it began in is repeated for ever: the call never returns.
RECURSIVE peek_loop(_, _)
peek_loop(t, index) ==
  IF Len(t.buffered_tokens) > index
    THEN Ret(t, t.buffered_tokens[index + 1])
    ELSE Only({ IF r.exc # "none" THEN r
                ELSE IF r.tok = None THEN Ret(r.t, None)
                ELSE Only({ IF t2 = t THEN Raise(t, "diverges", "peek")
                            ELSE peek_loop(t2, index)
                            : t2 \in {[r.t EXCEPT !.buffered_tokens =
                                                     appendleft(@, r.tok)]} })
                : r \in {Tokenizer_next(t)} })

Tokenizer_peek(t, index) == peek_loop(t, index)

\* Tokenizer.tokens: the tokens next() returns until it returns None, and
\* the lexical error that ended them, if any
RECURSIVE tokens_loop(_, _)
tokens_loop(t, acc) ==
  Only({ IF r.exc # "none" THEN [tokens |-> acc, err |-> r.msg]
         ELSE IF r.tok = None THEN [tokens |-> acc, err |-> "none"]
         ELSE Only({ tokens_loop(r.t, acc2) : acc2 \in {Append(acc, r.tok)} })
         : r \in {Tokenizer_next(t)} })

Tokenizer_tokens(text) == tokens_loop(Tokenizer(text), <<>>)

(***************************************************************************)
(* The syntax elements.  An element is a record: k is its class, type its  *)
(* `type` attribute (NoType when the class has none), name the spelling a  *)
(* Keyword or Symbol expects (NoName, Python's None, for the others) and   *)
(* seq the elements it is made of.                                         *)
(***************************************************************************)
\* the characters of a word; a word of one character is that character
Spell(w) ==
  CASE w = "class" -> <<"c","l","a","s","s">>
    [] w = "constructor" -> <<"c","o","n","s","t","r","u","c","t","o","r">>
    [] w = "function" -> <<"f","u","n","c","t","i","o","n">>
    [] w = "method" -> <<"m","e","t","h","o","d">>
    [] w = "field" -> <<"f","i","e","l","d">>
    [] w = "static" -> <<"s","t","a","t","i","c">>
    [] w = "var" -> <<"v","a","r">>
    [] w = "int" -> <<"i","n","t">>
    [] w = "char" -> <<"c","h","a","r">>
    [] w = "boolean" -> <<"b","o","o","l","e","a","n">>
    [] w = "void" -> <<"v","o","i","d">>
    [] w = "true" -> <<"t","r","u","e">>
    [] w = "false" -> <<"f","a","l","s","e">>
    [] w = "null" -> <<"n","u","l","l">>
    [] w = "this" -> <<"t","h","i","s">>
    [] w = "let" -> <<"l","e","t">>
    [] w = "do" -> <<"d","o">>
    [] w = "if" -> <<"i","f">>
    [] w = "else" -> <<"e","l","s","e">>
    [] w = "while" -> <<"w","h","i","l","e">>
    [] w = "return" -> <<"r","e","t","u","r","n">>
    [] w = "Main" -> <<"M","a","i","n">>
    [] w = "Math" -> <<"M","a","t","h">>
    [] w = "String" -> <<"S","t","r","i","n","g">>
    [] w = "Array" -> <<"A","r","r","a","y">>
    [] w = "Output" -> <<"O","u","t","p","u","t">>
    [] w = "Screen" -> <<"S","c","r","e","e","n">>
    [] w = "Keyboard" -> <<"K","e","y","b","o","a","r","d">>
    [] w = "Memory" -> <<"M","e","m","o","r","y">>
    [] w = "Sys" -> <<"S","y","s">>
    [] w = "foo" -> <<"f","o","o">>
    [] w = "bar" -> <<"b","a","r">>
    [] w = "new" -> <<"n","e","w">>
    [] w = "hi" -> <<"h","i">>
    [] OTHER -> <<w>>

NoName == <<"None">>

NoType == ""

Elem(k, type_, name, seq) ==
  [k |-> k, type |-> type_, name |-> name, seq |-> seq]

Keyword(w) == Elem("Keyword", "keyword", Spell(w), <<>>)

Symbol(w) == Elem("Symbol", "symbol", <<w>>, <<>>)

Identifier == Elem("Identifier", "identifier", NoName, <<>>)

IntegerConstant == Elem("IntegerConstant", "integerConstant", NoName, <<>>)

StringConstant == Elem("StringConstant", "stringConstant", NoName, <<>>)

VarName == Identifier

SubroutineName == Identifier

ClassName == Elem("ClassName", "identifier", NoName, <<>>)

NonTerminalSyntax(type_) == Elem("NonTerminalSyntax", type_, NoName, <<>>)

Optional(seq) == Elem("Optional", NoType, NoName, seq)

OptionalOrMore(seq) == Elem("OptionalOrMore", NoType, NoName, seq)

Serial(seq) == Elem("Serial", "Serial", NoName, seq)

OneOf(options) == Elem("OneOf", NoType, NoName, options)

Type_ ==
  Elem("OneOf", "type", NoName,
       <<Keyword("int"), Keyword("char"), Keyword("boolean"), ClassName>>)

KeywordConstant ==
  Elem("OneOf", "keywordConstant", NoName,
       <<Keyword("true"), Keyword("false"), Keyword("null"),
         Keyword("this")>>)

UnaryOperator == Elem("OneOf", "unaryOp", NoName, <<Symbol("-"), Symbol("~")>>)

\* expressions.py 100-125: the class sets TYPE and no `type` attribute
SubroutineCall ==
  Elem("SubroutineCall", NoType, NoName,
       << Serial(<<SubroutineName, Symbol("("),
                   NonTerminalSyntax("expressionList"), Symbol(")")>>),
          Serial(<<OneOf(<<ClassName, VarName>>), Symbol("."),
                   SubroutineName, Symbol("("),
                   NonTerminalSyntax("expressionList"), Symbol(")")>>) >>)

\* _make_syntax of each NonTerminalSyntax class, by its TYPE
make_syntax(type_) ==
  CASE type_ = "class" ->
         << Keyword("class"), ClassName, Symbol("{"),
            OptionalOrMore(<<NonTerminalSyntax("classVarDec")>>),
            OptionalOrMore(<<NonTerminalSyntax("subroutineDec")>>),
            Symbol("}") >>
    [] type_ = "classVarDec" ->
         << OneOf(<<Keyword("static"), Keyword("field")>>), Type_, VarName,
            OptionalOrMore(<<Symbol(","), VarName>>), Symbol(";") >>
    [] type_ = "subroutineDec" ->
         << OneOf(<<Keyword("constructor"), Keyword("function"),
                    Keyword("method")>>),
            OneOf(<<Keyword("void"), Type_>>), SubroutineName, Symbol("("),
            NonTerminalSyntax("parameterList"), Symbol(")"),
            NonTerminalSyntax("subroutineBody") >>
    [] type_ = "parameterList" ->
         << Optional(<< Serial(<<Type_, VarName>>),
                        OptionalOrMore(<<Symbol(","), Type_, VarName>>) >>) >>
    [] type_ = "subroutineBody" ->
         << Symbol("{"), OptionalOrMore(<<NonTerminalSyntax("varDec")>>),
            NonTerminalSyntax("statements"), Symbol("}") >>
    [] type_ = "varDec" ->
         << Keyword("var"), Type_, VarName,
            OptionalOrMore(<<Symbol(","), VarName>>), Symbol(";") >>
    [] type_ = "statements" ->
         << OptionalOrMore(<< OneOf(<< NonTerminalSyntax("letStatement"),
                                       NonTerminalSyntax("ifStatement"),
                                       NonTerminalSyntax("whileStatement"),
                                       NonTerminalSyntax("doStatement"),
                                       NonTerminalSyntax("returnStatement")
                                    >>) >>) >>
    [] type_ = "letStatement" ->
         << Keyword("let"), VarName,
            Optional(<<Symbol("["), NonTerminalSyntax("expression"),
                       Symbol("]")>>),
            Symbol("="), NonTerminalSyntax("expression"), Symbol(";") >>
    [] type_ = "ifStatement" ->
         << Keyword("if"), Symbol("("), NonTerminalSyntax("expression"),
            Symbol(")"), Symbol("{"), NonTerminalSyntax("statements"),
            Symbol("}"),
            Optional(<<Keyword("else"), Symbol("{"),
                       NonTerminalSyntax("statements"), Symbol("}")>>) >>
    [] type_ = "whileStatement" ->
         << Keyword("while"), Symbol("("), NonTerminalSyntax("expression"),
            Symbol(")"), Symbol("{"), NonTerminalSyntax("statements"),
            Symbol("}") >>
    [] type_ = "doStatement" ->
         << Keyword("do"), SubroutineCall, Symbol(";") >>
    [] type_ = "returnStatement" ->
         << Keyword("return"), Optional(<<NonTerminalSyntax("expression")>>),
            Symbol(";") >>
    [] type_ = "expression" ->
         << NonTerminalSyntax("term") >>
    [] type_ = "expressionList" ->
         << Optional(<< NonTerminalSyntax("expression"),
                        OptionalOrMore(<<Symbol(","),
                                         NonTerminalSyntax("expression")>>)
                     >>) >>
    [] type_ = "term" ->
         << OneOf(<< IntegerConstant, StringConstant, KeywordConstant,
                     VarName,
                     Serial(<<VarName, Symbol("["),
                              NonTerminalSyntax("expression"), Symbol("]")>>),
                     SubroutineCall,
                     Serial(<<Symbol("("), NonTerminalSyntax("expression"),
                              Symbol(")")>>),
                     Serial(<<UnaryOperator, NonTerminalSyntax("term")>>)
                  >>) >>

(***************************************************************************)
(* The sources the Tokenizer is run on: every text made of at most         *)
(* MaxPieces pieces.  The pieces are chosen so that their concatenations   *)
(* hold keywords, identifiers, integers in and out of range, symbols,      *)
(* white space, both kinds of comment and strings, closed or cut off.      *)
(***************************************************************************)
MaxPieces == 3

\* the largest offset a client passes to peek
MaxIndex == 1

Pieces ==
  { <<"a">>, <<"1">>, <<"_">>, <<"!">>, <<"3","2","7","6","7">>,
    <<"d","o">>, <<"(">>, <<" ">>, <<"\n">>,
    <<"/","*","c","*","/">>, <<"/","/","c">>, <<"/","*">>, <<"*","/">>,
    <<"\"">>, <<"\"","h","i","\"">> }

\* a source file ends with a newline, or with the last character of its
\* last line
Endings == {<<>>, <<"\n">>}

RECURSIVE Bodies(_)
Bodies(n) ==
  IF n = 0 THEN {<<>>}
  ELSE Bodies(n - 1) \cup {x \o y : x \in Bodies(n - 1), y \in Pieces}

Texts(n) == {x \o e : x \in Bodies(n), e \in Endings}

\* The text with each comment replaced by one space: a line comment runs
\* from // to the end of its line, a block comment from /* to the next */,
\* and neither starts inside a string literal.
RECURSIVE strip_comments(_, _, _)
strip_comments(text, i, mode) ==
  IF i > Len(text) THEN <<>>
  ELSE
    LET c == text[i]
        d == IF i < Len(text) THEN text[i + 1] ELSE ""
    IN  CASE mode = "code" ->
               IF c = "/" /\ d = "*"
                 THEN <<" ">> \o strip_comments(text, i + 2, "block")
               ELSE IF c = "/" /\ d = "/"
                 THEN <<" ">> \o strip_comments(text, i + 2, "line")
               ELSE IF c = "\""
                 THEN <<c>> \o strip_comments(text, i + 1, "string")
               ELSE <<c>> \o strip_comments(text, i + 1, "code")
          [] mode = "string" ->
               <<c>> \o strip_comments(text, i + 1,
                          IF c \in {"\"", "\n"} THEN "code" ELSE "string")
          [] mode = "line" ->
               IF c = "\n" THEN <<c>> \o strip_comments(text, i + 1, "code")
               ELSE strip_comments(text, i + 1, "line")
          [] mode = "block" ->
               IF c = "*" /\ d = "/" THEN strip_comments(text, i + 2, "code")
               ELSE strip_comments(text, i + 1, "block")

\* what Tokenizer.tokens gives on a text, and on the text without its
\* comments
Lexed(text) ==
  [all  |-> Tokenizer_tokens(text),
   bare |-> Tokenizer_tokens(strip_comments(text, 1, "code"))]

(***************************************************************************)
(* State.  tokenizer is the Tokenizer object a client reads through next() *)
(* and peek(); status says how its last call ended; consumed is the        *)
(* history of the tokens next() returned; last and prev are the history of *)
(* the two most recent calls; lexed is history too: Lexed of the text the  *)
(* Tokenizer was made on.                                                  *)
(***************************************************************************)
VARIABLES tokenizer, status, consumed, last, prev, lexed

(***************************************************************************)
(* State of a compilation batch (compilation_engine.py 300-317).  files is *)
(* the directory: the file stem and the text of each .jack file, in the    *)
(* order rf_process visits them.  VALID_CLASS_NAMES is the class attribute *)
(* of ClassName.  phase is the pass of __main__ that is running, collected *)
(* the number of files collect_class_names has seen, and outcomes the      *)
(* history of how generate_compiled_xml ended on each file it was given.   *)
(***************************************************************************)
VARIABLES files, VALID_CLASS_NAMES, phase, collected, outcomes

(***************************************************************************)
(* State of a client of one syntax element.  element is the element and,   *)
(* as history, the phrase and the spacing its Tokenizer was made on;       *)
(* matched is the history of the values its match returned; resolved is    *)
(* how its resolve ended, NoResult before the call.                        *)
(***************************************************************************)
VARIABLES element, matched, resolved

(***************************************************************************)
(* State of a serialization (nodes.py): root_node is the node whose write  *)
(* is called, NoNode when there is none, and out_file the characters       *)
(* written to the file.                                                    *)
(***************************************************************************)
VARIABLES root_node, out_file

(***************************************************************************)
(* State of an assembly (06_assembler/assembler.py): translator is the     *)
(* Translator, NoTranslator when there is none.                            *)
(***************************************************************************)
VARIABLES translator

(***************************************************************************)
(* State of a VM translation (07_vm_translator/code_writer.py):            *)
(* code_writer is the CodeWriter, NoCodeWriter when there is none.         *)
(***************************************************************************)
VARIABLES code_writer

stream_vars == <<tokenizer, status, consumed, last, prev, lexed>>

batch_vars == <<files, VALID_CLASS_NAMES, phase, collected, outcomes>>

element_vars == <<element, matched, resolved>>

write_vars == <<root_node, out_file>>

assembler_vars == <<translator>>

vm_vars == <<code_writer>>

vars == <<tokenizer, status, consumed, last, prev, lexed,
          files, VALID_CLASS_NAMES, phase, collected, outcomes,
          element, matched, resolved, root_node, out_file, translator,
          code_writer>>

\* no CodeWriter has been made
NoCodeWriter == [file |-> <<>>, rtn_addr_counter |-> -1]

\* no Translator has been made
NoTranslator == [parsed |-> FALSE, exc |-> "none", assembly_lines |-> <<>>]

\* no element is in use
NoElement == [e |-> Elem("None", NoType, NoName, <<>>), phrase |-> 0, style |-> ""]

\* resolve has not been called
NoResult == [exc |-> "not called"]

\* no node is being written
NoNode == [cls |-> "None", type |-> "", content |-> <<>>, children |-> <<>>]

(***************************************************************************)
(* match and resolve.  The result of resolve is the Tokenizer after the    *)
(* call, the nodes returned and how the call ended: exc is "none" when it  *)
(* returned and the exception raised otherwise ("diverges" when it never   *)
(* returns), with the message, the source line the message reports, and    *)
(* for a failed OneOf the types it lists and the token it found.           *)
(*                                                                         *)
(* match is the one-argument match(t) of terminals.py and intermediates.py *)
(* on the token the caller peeked, and NonTerminalSyntax.match hands that  *)
(* token to the first element of its syntax (base.py 119-122).             *)
(* JackSyntaxError is the class of base.py 8-11.                           *)
(***************************************************************************)
TerminalNode(tok) ==
  [cls |-> "TerminalNode", type |-> tok.type, content |-> tok.name,
   children |-> <<>>]

NonTerminalNode(type_, children) ==
  [cls |-> "NonTerminalNode", type |-> type_, content |-> <<>>,
   children |-> children]

(***************************************************************************)
(* Node.write.  A file is the sequence of the characters written to it; a  *)
(* node type is written as the one piece it is.                            *)
(***************************************************************************)
\* str.replace(old, new) for an old of one character
RECURSIVE replace(_, _, _)
replace(s, old, new) ==
  IF s = <<>> THEN <<>>
  ELSE (IF Head(s) = old THEN new ELSE <<Head(s)>>)
         \o replace(Tail(s), old, new)

\* the four replacements with `&` replaced last
escape_ampersand_last(content) ==
  replace(replace(replace(replace(content,
                                  "<", <<"&", "l", "t", ";">>),
                          ">", <<"&", "g", "t", ";">>),
                  "\"", <<"&", "q", "u", "o", "t", ";">>),
          "&", <<"&", "a", "m", "p", ";">>)

\* nodes.py 32-36: the chain of the four replace calls
escape(content) ==
  replace(replace(replace(replace(content,
                                  "&", <<"&", "a", "m", "p", ";">>),
                          "<", <<"&", "l", "t", ";">>),
                  ">", <<"&", "g", "t", ";">>),
          "\"", <<"&", "q", "u", "o", "t", ";">>)

\* "  " * depth
Indent(depth) == [i \in 1..(2 * depth) |-> " "]

\* TerminalNode.write
TerminalNode_write(node, depth) ==
  Indent(depth) \o <<"<", node.type, ">", " ">> \o escape(node.content)
    \o <<" ", "<", "/", node.type, ">", "\n">>

\* NonTerminalNode.write; write_each is its loop over the children from
\* child i on
RECURSIVE write(_, _), write_each(_, _, _)
write(node, depth) ==
  IF node.cls = "TerminalNode" THEN TerminalNode_write(node, depth)
  ELSE Indent(depth) \o <<"<", node.type, ">", "\n">>
         \o write_each(node.children, depth + 1, 1)
         \o Indent(depth) \o <<"<", "/", node.type, ">", "\n">>

write_each(children, depth, i) ==
  IF i > Len(children) THEN <<>>
  ELSE write(children[i], depth) \o write_each(children, depth, i + 1)

Done(t, nodes) ==
  [t |-> t, nodes |-> nodes, exc |-> "none", msg |-> "", line |-> 0,
   types |-> <<>>, found |-> None]

Fail(t, exc, msg) ==
  [t |-> t, nodes |-> <<>>, exc |-> exc, msg |-> msg, line |-> t.line_count,
   types |-> <<>>, found |-> None]

\* `t.type` with t = None
NoneType == "'NoneType' object has no attribute 'type'"

\* terminals.py 31-38: _create_syntax_error(t, line_num) reads
\* tokenizer.filename of the line number it is given as the tokenizer
IntFilename == "'int' object has no attribute 'filename'"

\* expressions.py 100-125, intermediates.py 174-177: `o.type` of an option
\* that has no `type` attribute
OptionType == "object has no attribute 'type'"

\* intermediates.py 305: ClassName.VALID_CLASS_NAMES as the class is defined
BuiltinClassNames ==
  { Spell(w) : w \in {"Math", "String", "Array", "Output", "Screen",
                      "Keyboard", "Memory", "Sys"} }

\* match with the registry asked about every identifier
terminal_match_registered_identifiers(e, tok) ==
  CASE e.k \in {"Identifier", "ClassName"} ->
         e.type = tok.type /\ tok.name \in VALID_CLASS_NAMES
    [] OTHER -> e.type = tok.type /\ e.name = tok.name

\* TerminalSyntax.match and its overrides in Identifier and ClassName, on a
\* token that is not None
terminal_match(e, tok) ==
  CASE e.k = "Identifier" -> e.type = tok.type
    [] e.k = "ClassName" ->
         e.type = tok.type /\ tok.name \in VALID_CLASS_NAMES
    [] OTHER -> e.type = tok.type /\ e.name = tok.name

\* match of every element, on a token that is not None
RECURSIVE match(_, _)
match(e, tok) ==
  CASE e.k = "NonTerminalSyntax" -> match(make_syntax(e.type)[1], tok)
    [] e.k \in {"Optional", "OptionalOrMore", "Serial"} ->
         match(e.seq[1], tok)
    [] e.k \in {"OneOf", "SubroutineCall"} ->
         \E i \in 1..Len(e.seq) : match(e.seq[i], tok)
    [] OTHER -> terminal_match(e, tok)

\* TerminalSyntax.resolve and its overrides: the token is consumed, then
\* validated
terminal_resolve(e, t) ==
  Only({ IF r.exc # "none" THEN Fail(r.t, r.exc, r.msg)
         ELSE IF r.tok = None THEN Fail(r.t, "AttributeError", NoneType)
         ELSE IF e.type # r.tok.type
           THEN Fail(r.t, "AttributeError", IntFilename)
         ELSE IF e.k \in {"Keyword", "Symbol"} /\ e.name # r.tok.name
           THEN Fail(r.t, "AttributeError", IntFilename)
         ELSE IF e.k = "ClassName" /\ r.tok.name \notin VALID_CLASS_NAMES
           THEN Fail(r.t, "JackSyntaxError", "Expected valid class name")
         ELSE Done(r.t, <<TerminalNode(r.tok)>>)
         : r \in {Tokenizer_next(t)} })

\* the option SubroutineCall.resolve chooses on the second token
second_token_option(tok) ==
  IF terminal_match(Symbol("."), tok) THEN 2 ELSE 1

(***************************************************************************)
(* The calls of resolve that have not returned are kept as a stack of      *)
(* frames, the innermost call last: a frame holds the element whose        *)
(* resolve is running, where the call stands (pc is "peek" before it looks *)
(* at the next token and "seq" while it goes through its elements, i is    *)
(* the number of elements or options it is done with), the nodes it has    *)
(* gathered and the token OneOf peeked last.  A run holds the Tokenizer,   *)
(* the stack, and the result: the nodes returned by the outermost call     *)
(* once the stack is empty, or the exception that ended the run.           *)
(***************************************************************************)
Frame(e) ==
  [e |-> e, pc |-> "peek", i |-> 0, nodes |-> <<>>, first_token |-> None]

Run(e, t) ==
  [t |-> t, stack |-> <<Frame(e)>>, nodes |-> <<>>, exc |-> "none",
   msg |-> "", line |-> 0, types |-> <<>>, found |-> None]

Top(m) == m.stack[Len(m.stack)]

\* the innermost call goes on as frame f
Goto(m, t, f) == [m EXCEPT !.t = t, !.stack[Len(m.stack)] = f]

\* the innermost call goes on as frame f and calls child.resolve(tokenizer)
Invoke(m, f, child) ==
  [m EXCEPT !.stack = SubSeq(@, 1, Len(@) - 1) \o <<f, Frame(child)>>]

\* the caller puts the nodes returned to it before its own
Return_prepends(m, t, nodes) ==
  IF Len(m.stack) = 1
    THEN [m EXCEPT !.t = t, !.stack = <<>>, !.nodes = nodes]
    ELSE [m EXCEPT !.t = t,
                   !.stack = [j \in 1..(Len(m.stack) - 1) |->
                                IF j = Len(m.stack) - 1
                                  THEN [m.stack[j] EXCEPT !.nodes = nodes \o @]
                                  ELSE m.stack[j]]]

\* the innermost call returns nodes: its caller adds them to its own
Return(m, t, nodes) ==
  IF Len(m.stack) = 1
    THEN [m EXCEPT !.t = t, !.stack = <<>>, !.nodes = nodes]
    ELSE [m EXCEPT !.t = t,
                   !.stack = [j \in 1..(Len(m.stack) - 1) |->
                                IF j = Len(m.stack) - 1
                                  THEN [m.stack[j] EXCEPT !.nodes = @ \o nodes]
                                  ELSE m.stack[j]]]

\* an exception leaves every call
Throw(m, t, exc, msg) ==
  [m EXCEPT !.t = t, !.exc = exc, !.msg = msg, !.line = t.line_count]

\* for ele in seq: result += ele.resolve(tokenizer), one element on
HasNext(f, seq) == f.i < Len(seq)

InvokeNext(m, f, seq) == Invoke(m, [f EXCEPT !.i = @ + 1], seq[f.i + 1])

\* TerminalSyntax.resolve and its overrides
TerminalSyntax_resolve(m, f) ==
  Only({ IF r.exc # "none" THEN Throw(m, r.t, r.exc, r.msg)
         ELSE Return(m, r.t, r.nodes)
         : r \in {terminal_resolve(f.e, m.t)} })

\* NonTerminalSyntax.resolve
NonTerminalSyntax_resolve(m, f) ==
  Only({ IF HasNext(f, syntax) THEN InvokeNext(m, f, syntax)
         ELSE Return(m, m.t, <<NonTerminalNode(f.e.type, f.nodes)>>)
         : syntax \in {make_syntax(f.e.type)} })

\* Serial.resolve
Serial_resolve(m, f) ==
  IF HasNext(f, f.e.seq) THEN InvokeNext(m, f, f.e.seq)
  ELSE Return(m, m.t, f.nodes)

\* Optional.resolve
Optional_resolve(m, f) ==
  IF f.pc = "peek"
    THEN Only({ IF p.exc # "none" THEN Throw(m, p.t, p.exc, p.msg)
                ELSE IF p.tok = None
                  THEN Throw(m, p.t, "AttributeError", NoneType)
                ELSE IF match(f.e.seq[1], p.tok)
                  THEN Goto(m, p.t, [f EXCEPT !.pc = "seq"])
                ELSE Return(m, p.t, <<>>)
                : p \in {Tokenizer_peek(m.t, 0)} })
  ELSE IF HasNext(f, f.e.seq) THEN InvokeNext(m, f, f.e.seq)
  ELSE Return(m, m.t, f.nodes)

\* OptionalOrMore.resolve
OptionalOrMore_resolve(m, f) ==
  IF f.pc = "peek"
    THEN Only({ IF p.exc # "none" THEN Throw(m, p.t, p.exc, p.msg)
                ELSE IF p.tok = None
                  THEN Throw(m, p.t, "AttributeError", NoneType)
                ELSE IF match(f.e.seq[1], p.tok)
                  THEN Goto(m, p.t, [f EXCEPT !.pc = "seq", !.i = 0])
                ELSE Return(m, p.t, f.nodes)
                : p \in {Tokenizer_peek(m.t, 0)} })
  ELSE IF HasNext(f, f.e.seq) THEN InvokeNext(m, f, f.e.seq)
  ELSE Goto(m, m.t, [f EXCEPT !.pc = "peek"])

\* intermediates.py 196-198: no option of a OneOf matched
one_of_error(m, f) ==
  IF \E i \in 1..Len(f.e.seq) : f.e.seq[i].type = NoType
    THEN Throw(m, m.t, "AttributeError", OptionType)
    ELSE [ Throw(m, m.t, "JackSyntaxError", "Must be one of the following")
             EXCEPT !.types = [i \in 1..Len(f.e.seq) |-> f.e.seq[i].type],
                    !.found = f.first_token ]

\* OneOf.resolve: the options are tried in order, each on a fresh peek
OneOf_resolve(m, f) ==
  IF ~HasNext(f, f.e.seq) THEN one_of_error(m, f)
  ELSE Only({ IF p.exc # "none" THEN Throw(m, p.t, p.exc, p.msg)
              ELSE IF p.tok = None
                THEN Throw(m, p.t, "AttributeError", NoneType)
              ELSE IF match(f.e.seq[f.i + 1], p.tok)
                THEN Goto(m, p.t, Frame(f.e.seq[f.i + 1]))
              ELSE Goto(m, p.t, [f EXCEPT !.i = @ + 1, !.first_token = p.tok])
              : p \in {Tokenizer_peek(m.t, 0)} })

\* SubroutineCall.resolve
SubroutineCall_resolve(m, f) ==
  Only({ IF p.exc # "none" THEN Throw(m, p.t, p.exc, p.msg)
         ELSE IF p.tok = None THEN Throw(m, p.t, "AttributeError", NoneType)
         ELSE Goto(m, p.t, Frame(f.e.seq[second_token_option(p.tok)]))
         : p \in {Tokenizer_peek(m.t, 1)} })

\* the innermost call takes its next step
resolve_step(m, f) ==
  CASE f.e.k = "NonTerminalSyntax" -> NonTerminalSyntax_resolve(m, f)
    [] f.e.k = "Optional" -> Optional_resolve(m, f)
    [] f.e.k = "OptionalOrMore" -> OptionalOrMore_resolve(m, f)
    [] f.e.k = "Serial" -> Serial_resolve(m, f)
    [] f.e.k = "OneOf" -> OneOf_resolve(m, f)
    [] f.e.k = "SubroutineCall" -> SubroutineCall_resolve(m, f)
    [] OTHER -> TerminalSyntax_resolve(m, f)

Ended(m) == m.stack = <<>> \/ m.exc # "none"

\* a resolve of the class rule on a source of the model ends within
\* 2^MaxDoublings steps
MaxDoublings == 10

\* up to 2^k steps of the run m
RECURSIVE resolve_steps(_, _)
resolve_steps(m, k) ==
  IF Ended(m) THEN m
  ELSE IF k = 0 THEN Only({ resolve_step(m, f) : f \in {Top(m)} })
  ELSE Only({ resolve_steps(m1, k - 1) : m1 \in {resolve_steps(m, k - 1)} })

\* e.resolve(tokenizer), to its return or to the exception that leaves it
resolve(e, t) ==
  Only({ resolve_steps(m, MaxDoublings) : m \in {Run(e, t)} })

NoCall == [op |-> "none", index |-> 0, tok |-> None, exc |-> "none",
           msg |-> "", n |-> 0]

Call(op, index, r, n) ==
  [op |-> op, index |-> index, tok |-> r.tok, exc |-> r.exc, msg |-> r.msg,
   n |-> n]

Init ==
  /\ tokenizer \in {Tokenizer(text) : text \in Texts(MaxPieces)}
  /\ lexed = Lexed(tokenizer.source_file.text)
  /\ status = "run"
  /\ consumed = <<>>
  /\ last = NoCall
  /\ prev = NoCall
  /\ files = <<>>
  /\ VALID_CLASS_NAMES = BuiltinClassNames
  /\ phase = "idle"
  /\ collected = 0
  /\ outcomes = <<>>
  /\ element = NoElement
  /\ matched = <<>>
  /\ resolved = NoResult
  /\ root_node = NoNode
  /\ out_file = <<>>
  /\ translator = NoTranslator
  /\ code_writer = NoCodeWriter

StatusAfter(r, atEnd) ==
  IF r.exc = "TokenizerError" THEN "error"
  ELSE IF r.exc = "diverges" THEN "hung"
  ELSE IF atEnd THEN "eof"
  ELSE "run"

\* a client calls tokenizer.next()
Next_ ==
  /\ status = "run"
  /\ \E r \in {Tokenizer_next(tokenizer)} :
       /\ tokenizer' = r.t
       /\ status' = StatusAfter(r, r.tok = None)
       /\ consumed' = IF r.exc = "none" /\ r.tok # None
                        THEN Append(consumed, r.tok) ELSE consumed
       /\ last' = Call("next", 0, r, Len(consumed))
       /\ prev' = last
       /\ UNCHANGED lexed
       /\ UNCHANGED batch_vars
       /\ UNCHANGED element_vars
  /\ UNCHANGED write_vars
  /\ UNCHANGED assembler_vars
  /\ UNCHANGED vm_vars

\* a client calls tokenizer.peek(index)
Peek(index) ==
  /\ status = "run"
  /\ \E r \in {Tokenizer_peek(tokenizer, index)} :
       /\ tokenizer' = r.t
       /\ status' = StatusAfter(r, FALSE)
       /\ last' = Call("peek", index, r, Len(consumed))
       /\ prev' = last
       /\ UNCHANGED <<consumed, lexed>>
       /\ UNCHANGED batch_vars
       /\ UNCHANGED element_vars
  /\ UNCHANGED write_vars
  /\ UNCHANGED assembler_vars
  /\ UNCHANGED vm_vars

Next ==
  \/ Next_
  \/ \E index \in 0..MaxIndex : Peek(index)

Spec == Init /\ [][Next]_vars

(***************************************************************************)
(* What the claims are stated about.                                       *)
(***************************************************************************)
\* the text of the source file
Text == tokenizer.source_file.text

\* the tokens the Lexer has returned so far, in the order it returned them:
\* those next() handed out, then those peek() has buffered
Returned == consumed \o tokenizer.buffered_tokens

IsPrefix(s, t) == Len(s) <= Len(t) /\ s = SubSeq(t, 1, Len(s))

\* C2: whenever at least index+1 unconsumed tokens remain, peek(index)
\* returns the token index positions ahead of the next unconsumed token, and
\* two successive peek(index) calls return the same token.
PeekReturnsTokenAhead ==
  LET all == lexed.all.tokens
      remain(c) == Len(all) >= c.n + c.index + 1
  IN  /\ last.op = "peek" /\ remain(last)
           => last.exc = "none" /\ last.tok = all[last.n + last.index + 1]
      /\ last.op = "peek" /\ prev.op = "peek" /\ last.index = prev.index
           /\ remain(last)
           => last.exc = "none" /\ last.tok = prev.tok

\* C3: the tokens next() has returned are the first tokens of the Lexer's
\* token sequence, in its order, whatever peek calls came between them; the
\* token peek(0) showed is the token the next next() returns.
StreamOrder ==
  LET all == lexed.all.tokens IN
  /\ IsPrefix(consumed, all)
  /\ status = "eof" => consumed = all
  /\ prev.op = "peek" /\ prev.index = 0 /\ prev.exc = "none"
       /\ last.op = "next" /\ last.exc = "none"
       => last.tok = prev.tok

\* a next() that follows a peek() has returned the second token
StreamOrderWitness ==
  /\ prev.op = "peek" /\ prev.tok # None
  /\ last.op = "next" /\ last.tok # None
  /\ Len(consumed) = 2

\* C5: the Lexer returns tokens in source order; a symbol character ends the
\* pending token, which is returned first, and is itself one symbol token.
SourceOrder ==
  /\ \A i \in 1..(Len(Returned) - 1) : Returned[i].at < Returned[i + 1].at
  /\ \A i \in 1..Len(Returned) :
       LET tok == Returned[i]
           end == tok.at + Len(tok.name)
       IN  /\ tok.type = "symbol" => tok.name = <<Text[tok.at + 1]>>
           /\ tok.type \in {"keyword", "integerConstant", "identifier"}
                => /\ tok.name = SubSeq(Text, tok.at + 1, end)
                   /\ \A j \in 1..Len(tok.name) : tok.name[j] \notin SYMBOLS
                   /\ ( /\ end < Len(Text)
                        /\ Text[end + 1] \in SYMBOLS
                        /\ ~ ( /\ Text[end + 1] = "/"
                               /\ end + 1 < Len(Text)
                               /\ Text[end + 2] \in {"/", "*"} )
                        => /\ i < Len(Returned)
                           /\ Returned[i + 1] =
                                Token("symbol", <<Text[end + 1]>>, end) )

\* one character has yielded an identifier and a symbol, both consumed
SourceOrderWitness ==
  \E i \in 1..(Len(consumed) - 1) :
    /\ consumed[i].type = "identifier"
    /\ consumed[i + 1].type = "symbol"
    /\ consumed[i + 1].at = consumed[i].at + Len(consumed[i].name)

\* the classification the specification gives a flushed pending token
AllDigits(text) == \A i \in 1..Len(text) : text[i] \in Digits

SpecKind(text) ==
  IF text \in KEYWORDS THEN "keyword"
  ELSE IF AllDigits(text)
    THEN IF int_value(text, 1, 0) <= 32767 THEN "integerConstant"
         ELSE "Integer out of range"
  ELSE IF text[1] \in Digits THEN "Identifier cannot start with a digit"
  ELSE IF \A i \in 1..Len(text) : isalnum(text[i]) \/ text[i] = "_"
    THEN "identifier"
  ELSE "Identifier must be a sequence"

\* the pending token whose classification raised the TokenizerError
Rejected == SubSeq(Text, tokenizer.tstart + 1, char_at(tokenizer))

\* C6: a flushed pending token is a keyword, an integer in range, an
\* "integer out of range" error, a "cannot start with a digit" error, an
\* identifier or an "invalid identifier characters" error, in that order.
ClassifiedAsSpecified ==
  /\ \A i \in 1..Len(Returned) :
       Returned[i].type \in {"keyword", "integerConstant", "identifier"}
         => Returned[i].type = SpecKind(Returned[i].name)
  /\ status = "error" => last.msg = SpecKind(Rejected)

\* C7: every token the Lexer emits satisfies the invariant of its kind.
TokenInvariant ==
  \A i \in 1..Len(Returned) :
    LET tok == Returned[i] IN
    /\ tok.type = "integerConstant"
         => /\ tok.name # <<>>
            /\ AllDigits(tok.name)
            /\ int_value(tok.name, 1, 0) \in 0..32767
    /\ tok.type = "identifier"
         => /\ tok.name # <<>>
            /\ tok.name[1] \notin Digits
            /\ \A j \in 1..Len(tok.name) :
                 isalnum(tok.name[j]) \/ tok.name[j] = "_"
            /\ tok.name \notin KEYWORDS
    /\ tok.type = "keyword" => tok.name \in KEYWORDS
    /\ tok.type = "symbol" => Len(tok.name) = 1 /\ tok.name[1] \in SYMBOLS

\* C8: a comment between tokens adds nothing to any token and ends the
\* pending token: the tokens of a source are the tokens of the same source
\* with each comment replaced by a space.
CommentsAreSpaces ==
  LET bare == lexed.bare IN
  /\ IsPrefix(PlainSeq(consumed), PlainSeq(bare.tokens))
  /\ status = "eof" => PlainSeq(consumed) = PlainSeq(bare.tokens)
  /\ status = "error"
       => /\ last.msg = bare.err
          /\ Len(Returned) = Len(bare.tokens)

\* `a/*c*/a` has been lexed as two identifiers
CommentsAreSpacesWitness ==
  /\ Text = <<"a", "/", "*", "c", "*", "/", "a", "\n">>
  /\ status = "eof"
  /\ PlainSeq(consumed) = << [type |-> "identifier", name |-> <<"a">>],
                             [type |-> "identifier", name |-> <<"a">>] >>

\* the characters after the opening quote at offset `at`, up to the closing
\* quote or the newline that ends the string; Len(Text)+1 when none does
StringEnd(at) ==
  LET ends == {j \in (at + 2)..Len(Text) : Text[j] \in {"\"", "\n"}} IN
  IF ends = {} THEN Len(Text) + 1
  ELSE CHOOSE j \in ends : \A k \in ends : j <= k

PeekTerminates ==
  /\ status # "hung"
  /\ last.op = "peek" => last.exc \in {"none", "TokenizerError"}

\* the source ends with a character of a keyword, constant or identifier
\* that is outside every comment and string literal
EndsPending ==
  /\ Text # <<>>
  /\ Text[Len(Text)] \notin SYMBOLS \cup Whitespace \cup {"\""}
  /\ ~tokenizer.in_comment
  /\ ~tokenizer.in_string

\* C26: no pending characters are lost at the end of the input: a source
\* that ends with the last character of a token has that token returned
\* before the Lexer reports that the tokens are exhausted.
PendingEmittedAtEnd ==
  status = "eof" /\ EndsPending
    => /\ consumed # <<>>
       /\ consumed[Len(consumed)].at + Len(consumed[Len(consumed)].name)
            = Len(Text)

\* C27: the text of a string token is the characters between its opening
\* quote and the closing quote or newline; a token pending before the
\* opening quote is returned as its own token before the string token.
StringExcludesPending ==
  \A i \in 1..Len(Returned) :
    LET tok == Returned[i] IN
    tok.type = "stringConstant"
      => /\ Text[tok.at + 1] = "\""
         /\ tok.name = SubSeq(Text, tok.at + 2, StringEnd(tok.at) - 1)

(***************************************************************************)
(* The Lexer one character at a time: a client that calls _next_char as    *)
(* the loop of next() does, until the end of the file or a lexical error.  *)
(* consumed collects the tokens the calls return.                          *)
(***************************************************************************)
InitChars ==
  /\ tokenizer \in {Tokenizer(text) : text \in Texts(MaxPieces)}
  /\ lexed = Lexed(<<>>)
  /\ status = "run"
  /\ consumed = <<>>
  /\ last = NoCall
  /\ prev = NoCall
  /\ files = <<>>
  /\ VALID_CLASS_NAMES = BuiltinClassNames
  /\ phase = "idle"
  /\ collected = 0
  /\ outcomes = <<>>
  /\ element = NoElement
  /\ matched = <<>>
  /\ resolved = NoResult
  /\ root_node = NoNode
  /\ out_file = <<>>
  /\ translator = NoTranslator
  /\ code_writer = NoCodeWriter

\* tokenizer._next_char()
Tokenizer_next_char ==
  /\ status = "run"
  /\ \E r \in {next_char(tokenizer)} :
       /\ tokenizer' = r.t
       /\ status' = IF r.err # "none" THEN "error"
                    ELSE IF r.t.eof THEN "eof" ELSE "run"
       /\ consumed' = consumed \o r.tokens
  /\ UNCHANGED <<last, prev, lexed>>
  /\ UNCHANGED batch_vars
  /\ UNCHANGED element_vars
  /\ UNCHANGED write_vars
  /\ UNCHANGED assembler_vars
  /\ UNCHANGED vm_vars

NextChars == Tokenizer_next_char

SpecChars == InitChars /\ [][NextChars]_vars

\* the step was a call of _next_char that looked at a character: it did not
\* skip one and did not find the end of the file
Looked == tokenizer.skip = 0 /\ ~tokenizer'.eof

\* the character it looked at and the tokens it returned
Char == tokenizer'.buffer[tokenizer'.p + 1]

Tokens == SubSeq(consumed', Len(consumed) + 1, Len(consumed'))

\* a character read inside a string starts no comment and gives no symbol
\* token; unless it ends the string it is added to the string's text
InStringStep ==
  tokenizer.in_string /\ Looked /\ status' # "error" =>
    /\ ~tokenizer'.in_comment
    /\ \A j \in 1..Len(Tokens) : Tokens[j].type = "stringConstant"
    /\ Char \notin {"\"", "\n"}
         => /\ Tokens = <<>>
            /\ tokenizer'.in_string
            /\ tokenizer'.token_chars = Append(tokenizer.token_chars, Char)

\* a character read inside a comment starts no string and gives no token
InCommentStep ==
  tokenizer.in_comment /\ Looked /\ status' # "error" =>
    /\ ~tokenizer'.in_string
    /\ Tokens = <<>>
    /\ tokenizer'.token_chars = tokenizer.token_chars

\* C28: the Lexer is never in a comment and in a string at once; a
\* character read inside a string starts no comment and gives no symbol
\* token: unless it is the closing quote or a newline it is added to the
\* string's text; a character read inside a comment starts no string.
CommentAndStringExclusive ==
  /\ [](~(tokenizer.in_comment /\ tokenizer.in_string))
  /\ [][InStringStep /\ InCommentStep]_vars

\* the Lexer is inside the string of `"/*"` and has read the comment opener
\* as two characters of the string's text
CommentAndStringExclusiveWitness ==
  /\ Text = <<"\"", "/", "*", "\"", "\n">>
  /\ tokenizer.in_string
  /\ ~tokenizer.in_comment
  /\ tokenizer.token_chars = <<"/", "*">>

(***************************************************************************)
(* Compilation units.  A program is given by its derivation in the Jack    *)
(* grammar, written with the node classes of nodes.py; its source text is  *)
(* the lexemes of the leaves of the derivation, spaced in one of three     *)
(* styles.                                                                 *)
(***************************************************************************)
Leaf(type_, w) == TerminalNode([type |-> type_, name |-> w])

kw(w) == Leaf("keyword", Spell(w))

sym(c) == Leaf("symbol", <<c>>)

id(w) == Leaf("identifier", Spell(w))

int(w) == Leaf("integerConstant", <<w>>)

str(w) == Leaf("stringConstant", Spell(w))

N(type_, children) == NonTerminalNode(type_, children)

varTerm(w) == N("expression", <<N("term", <<id(w)>>)>>)

NoArgs == N("expressionList", <<>>)

\* 'class' stem '{' members '}'
ClassOf(stem, members) ==
  N("class", <<kw("class"), id(stem), sym("{")>> \o members \o <<sym("}")>>)

\* 'function' 'void' foo '(' ')' '{' statements 'return' ';' '}'
FunctionOf(statements) ==
  N("subroutineDec",
    << kw("function"), kw("void"), id("foo"), sym("("),
       N("parameterList", <<>>), sym(")"),
       N("subroutineBody",
         << sym("{"),
            N("statements",
              statements \o <<N("returnStatement",
                                <<kw("return"), sym(";")>>)>>),
            sym("}") >>) >>)

DoOf(call) == N("doStatement", <<kw("do")>> \o call \o <<sym(";")>>)

LetOf(expression) ==
  N("letStatement", <<kw("let"), id("x"), sym("="), expression, sym(";")>>)

\* do foo();
DoUnqualified == DoOf(<<id("foo"), sym("("), NoArgs, sym(")")>>)

\* do foo.bar();
DoQualified ==
  DoOf(<<id("foo"), sym("."), id("bar"), sym("("), NoArgs, sym(")")>>)

\* method int bar(int x) { var int y; return x; }
MethodBar ==
  N("subroutineDec",
    << kw("method"), kw("int"), id("bar"), sym("("),
       N("parameterList", <<kw("int"), id("x")>>), sym(")"),
       N("subroutineBody",
         << sym("{"),
            N("varDec", <<kw("var"), kw("int"), id("y"), sym(";")>>),
            N("statements",
              <<N("returnStatement",
                  <<kw("return"), varTerm("x"), sym(";")>>)>>),
            sym("}") >>) >>)

\* if (x) { } else { } while (x) { }
IfWhile ==
  << N("ifStatement",
       << kw("if"), sym("("), varTerm("x"), sym(")"),
          sym("{"), N("statements", <<>>), sym("}"),
          kw("else"), sym("{"), N("statements", <<>>), sym("}") >>),
     N("whileStatement",
       << kw("while"), sym("("), varTerm("x"), sym(")"),
          sym("{"), N("statements", <<>>), sym("}") >>) >>

\* let 5 = 1 ;
LetFive ==
  N("letStatement",
    <<kw("let"), int("5"), sym("="), int("1"), sym(";")>>)

\* the file stem, the derivation and the class names used as types; the
\* text of an ungrammatical program has no derivation, and tree gives its
\* terminals
Program(stem, members, uses) ==
  [stem |-> Spell(stem), tree |-> ClassOf(stem, members), uses |-> uses,
   grammatical |-> TRUE]

Ungrammatical(program) == [program EXCEPT !.grammatical = FALSE]

Programs ==
  << Program("Main", <<>>, {}),
     Program("Main",
             <<N("classVarDec",
                 <<kw("field"), kw("int"), id("x"), sym(","), id("y"),
                   sym(";")>>)>>, {}),
     Program("Main",
             <<N("classVarDec",
                 <<kw("static"), id("foo"), id("x"), sym(";")>>)>>,
             {Spell("foo")}),
     Program("Main", <<FunctionOf(<<>>)>>, {}),
     Program("Main", <<FunctionOf(<<DoUnqualified>>)>>, {}),
     Program("Main", <<FunctionOf(<<DoQualified>>)>>, {}),
     Program("Main", <<FunctionOf(<<LetOf(varTerm("y"))>>)>>, {}),
     Program("Main",
             <<FunctionOf(<<LetOf(N("expression",
                                    <<N("term", <<int("1")>>)>>))>>)>>, {}),
     Program("Main",
             <<FunctionOf(<<LetOf(N("expression",
                                    <<N("term", <<str("hi")>>)>>))>>)>>, {}),
     Program("Main",
             <<FunctionOf(<<LetOf(N("expression",
                                    <<N("term", <<id("x")>>), sym("+"),
                                      N("term", <<id("y")>>)>>))>>)>>, {}),
     Program("Main", <<MethodBar>>, {}),
     Program("Main", <<FunctionOf(IfWhile)>>, {}),
     Program("foo", <<>>, {}),
     Program("bar", <<>>, {}),
     \* class Main { field int 1x ; }
     Ungrammatical(
       Program("Main",
               <<N("classVarDec",
                   <<kw("field"), kw("int"),
                     Leaf("identifier", <<"1", "x">>), sym(";")>>)>>, {})),
     \* class Main { function void foo ( ) { let 5 = 1 ; return ; } }
     Ungrammatical(Program("Main", <<FunctionOf(<<LetFive>>)>>, {})) >>

\* the programs whose one statement before the return is a do statement
DoPrograms ==
  { p \in 1..Len(Programs) :
      Programs[p].tree \in { ClassOf("Main", <<FunctionOf(<<DoUnqualified>>)>>),
                             ClassOf("Main", <<FunctionOf(<<DoQualified>>)>>) } }

\* the programs a directory holds besides its first file
LibraryPrograms == { p \in 1..Len(Programs) : Programs[p].stem # Spell("Main") }

\* the terminals of a derivation, left to right
RECURSIVE LeavesOf(_)
LeavesOf(nodes) ==
  IF nodes = <<>> THEN <<>>
  ELSE (IF Head(nodes).cls = "TerminalNode" THEN <<Head(nodes)>>
        ELSE LeavesOf(Head(nodes).children)) \o LeavesOf(Tail(nodes))

Lexeme(leaf) ==
  IF leaf.type = "stringConstant" THEN <<"\"">> \o leaf.content \o <<"\"">>
  ELSE leaf.content

Styles == {"tight", "spaced", "lines"}

\* what a style writes between two lexemes
Separator(style, a, b) ==
  CASE style = "spaced" -> <<" ">>
    [] style = "lines" -> <<"\n">>
    [] OTHER -> IF (isalnum(a[Len(a)]) \/ a[Len(a)] = "_")
                   /\ (isalnum(b[1]) \/ b[1] = "_")
                  THEN <<" ">> ELSE <<>>

RECURSIVE Join(_, _, _)
Join(style, leaves, i) ==
  IF i > Len(leaves) THEN <<"\n">>
  ELSE (IF i = 1 THEN <<>>
        ELSE Separator(style, Lexeme(leaves[i - 1]), Lexeme(leaves[i])))
       \o Lexeme(leaves[i]) \o Join(style, leaves, i + 1)

\* an incomplete unit lacks at most MaxCut of the last terminals of its
\* program
MaxCut == 5

\* a directory holds at most MaxFiles .jack files
MaxFiles == 2

\* the .jack file of program prog that lacks its last cut terminals; prog,
\* style and cut are history
File(prog, style, cut) ==
  Only({ [stem |-> Programs[prog].stem,
          text |-> Join(style, SubSeq(leaves, 1, Len(leaves) - cut), 1),
          prog |-> prog, style |-> style, cut |-> cut]
         : leaves \in {LeavesOf(<<Programs[prog].tree>>)} })

\* the number of terminals of program prog
Size(prog) == Len(LeavesOf(<<Programs[prog].tree>>))

FirstFiles ==
  { File(c[1], c[2], c[3]) :
      c \in { d \in ((1..Len(Programs)) \ LibraryPrograms) \X Styles
                      \X (0..MaxCut) : d[3] <= Size(d[1]) } }

LibraryFiles == { File(prog, "tight", 0) : prog \in LibraryPrograms }

RECURSIVE Libraries(_)
Libraries(n) ==
  IF n = 0 THEN {<<>>}
  ELSE Libraries(n - 1)
         \cup UNION { { Append(fs, f) :
                          f \in {g \in LibraryFiles :
                                   \A i \in 1..Len(fs) : fs[i] # g} } :
                        fs \in Libraries(n - 1) }

Directories == { <<f>> \o fs : f \in FirstFiles, fs \in Libraries(MaxFiles - 1) }

(***************************************************************************)
(* The compilation of a directory, compilation_engine.py 300-317: the      *)
(* first pass registers the stem of every file as a class name, the second *)
(* resolves the class rule on each file and writes its tree.  An exception *)
(* ends the run.                                                           *)
(***************************************************************************)
InitCompile ==
  /\ files \in Directories
  /\ VALID_CLASS_NAMES = BuiltinClassNames
  /\ phase = "collect"
  /\ collected = 0
  /\ outcomes = <<>>
  /\ tokenizer = Tokenizer(<<>>)
  /\ lexed = Lexed(<<>>)
  /\ status = "run"
  /\ consumed = <<>>
  /\ last = NoCall
  /\ prev = NoCall
  /\ element = NoElement
  /\ matched = <<>>
  /\ resolved = NoResult
  /\ root_node = NoNode
  /\ out_file = <<>>
  /\ translator = NoTranslator
  /\ code_writer = NoCodeWriter

\* the first pass ends after the first file
collect_class_names_first_file_only ==
  /\ phase = "collect"
  /\ VALID_CLASS_NAMES' = VALID_CLASS_NAMES \cup {files[collected + 1].stem}
  /\ collected' = collected + 1
  /\ phase' = "compile"
  /\ UNCHANGED <<files, outcomes>>
  /\ UNCHANGED stream_vars
  /\ UNCHANGED element_vars
  /\ UNCHANGED write_vars
  /\ UNCHANGED assembler_vars
  /\ UNCHANGED vm_vars

\* rf_process(collect_class_names, ...) on the next file
collect_class_names ==
  /\ phase = "collect"
  /\ VALID_CLASS_NAMES' = VALID_CLASS_NAMES \cup {files[collected + 1].stem}
  /\ collected' = collected + 1
  /\ phase' = IF collected + 1 = Len(files) THEN "compile" ELSE "collect"
  /\ UNCHANGED <<files, outcomes>>
  /\ UNCHANGED stream_vars
  /\ UNCHANGED element_vars
  /\ UNCHANGED write_vars
  /\ UNCHANGED assembler_vars
  /\ UNCHANGED vm_vars

\* generate_compiled_xml with out_file written whether or not resolve
\* returned
outcome_of_writes_always(r) ==
  [exc |-> r.exc, msg |-> r.msg, line |-> r.line, types |-> r.types,
   found |-> r.found,
   root_node |-> IF r.exc = "none" THEN <<r.nodes[1]>> ELSE <<>>,
   out_file |-> write(NonTerminalNode("class", r.nodes), 0)]

\* how generate_compiled_xml ends when Class().resolve(tokenizer) ends as r:
\* the exception that leaves it, or root_node and the tree written to
\* the characters written to out_file
outcome_of(r) ==
  IF r.exc = "NoMoreTokens"
    THEN [exc |-> "JackSyntaxError", msg |-> "Unfinished script.",
          line |-> r.t.line_count, types |-> <<>>, found |-> None,
          root_node |-> <<>>, out_file |-> <<>>]
  ELSE [exc |-> r.exc, msg |-> r.msg, line |-> r.line, types |-> r.types,
        found |-> r.found,
        root_node |-> IF r.exc = "none" THEN <<r.nodes[1]>> ELSE <<>>,
        out_file |-> IF r.exc = "none" THEN write(r.nodes[1], 0) ELSE <<>>]

\* rf_process(generate_compiled_xml, ...) on the next file
generate_compiled_xml ==
  /\ phase = "compile"
  /\ \E r \in {resolve(NonTerminalSyntax("class"),
                       Tokenizer(files[Len(outcomes) + 1].text))} :
       /\ tokenizer' = r.t
       /\ outcomes' = Append(outcomes, outcome_of(r))
       /\ phase' = IF r.exc # "none" THEN "failed"
                   ELSE IF Len(outcomes) + 1 = Len(files) THEN "done"
                   ELSE "compile"
  /\ UNCHANGED <<files, VALID_CLASS_NAMES, collected>>
  /\ UNCHANGED <<status, consumed, last, prev, lexed>>
  /\ UNCHANGED element_vars
  /\ UNCHANGED write_vars
  /\ UNCHANGED assembler_vars
  /\ UNCHANGED vm_vars

NextCompile ==
  \/ collect_class_names
  \/ generate_compiled_xml

SpecCompile == InitCompile /\ [][NextCompile]_vars

(***************************************************************************)
(* What the claims about a compilation are stated about.                   *)
(***************************************************************************)
\* file i of the directory is a whole grammatical program and every class
\* name it uses as a type is registered
Valid(i) ==
  /\ files[i].cut = 0
  /\ Programs[files[i].prog].grammatical
  /\ Programs[files[i].prog].uses \subseteq VALID_CLASS_NAMES

\* file i of the directory is a program cut short
CutShort(i) == files[i].cut > 0

\* the Tokenizer has returned None: the file is read to its end and no
\* token is buffered
Exhausted == tokenizer.eof /\ tokenizer.buffered_tokens = <<>>

\* the doStatement of the tree of a program made by FunctionOf
DoStatementOf(root) == root.children[4].children[7].children[2].children[1]

\* the doStatement in the derivation of program prog
ReferenceDo(prog) == DoStatementOf(Programs[prog].tree)

\* C1: every valid program resolves without an error to exactly one tree,
\* rooted at a class node, that equals the derivation of the program in the
\* grammar: same nesting of rules, same terminals in the same order.
ParsesToReferenceTree ==
  \A i \in 1..Len(outcomes) :
    Valid(i) =>
      /\ outcomes[i].exc = "none"
      /\ outcomes[i].root_node = <<Programs[files[i].prog].tree>>

\* C4: when the tokens run out while a rule is incomplete, the compilation
\* of the unit ends with the JackSyntaxError "Unfinished script." and with
\* no other error.
UnfinishedScript ==
  phase = "failed" /\ CutShort(Len(outcomes)) /\ Exhausted =>
    /\ outcomes[Len(outcomes)].exc = "JackSyntaxError"
    /\ outcomes[Len(outcomes)].msg = "Unfinished script."

\* C10: in every spacing of its tokens, `do foo();` resolves its call in the
\* unqualified form and `do foo.bar();` in the qualified form, with every
\* token of the statement in the tree.
CallFormBySecondToken ==
  \A i \in 1..Len(outcomes) :
    files[i].cut = 0 /\ files[i].prog \in DoPrograms =>
      /\ outcomes[i].exc = "none"
      /\ DoStatementOf(outcomes[i].root_node[1]) = ReferenceDo(files[i].prog)

\* the programs whose identifiers, the class name apart, stand in
\* variable-name and subroutine-name positions
DeclarationPrograms ==
  { p \in 1..Len(Programs) :
      Programs[p].tree \in
        { ClassOf("Main", <<N("classVarDec",
                              <<kw("field"), kw("int"), id("x"), sym(","),
                                id("y"), sym(";")>>)>>),
          ClassOf("Main", <<MethodBar>>) } }

\* the compilation of file i returned the derivation of its program
Derived(i) ==
  /\ outcomes[i].exc = "none"
  /\ outcomes[i].root_node = <<Programs[files[i].prog].tree>>

AllRegistered ==
  \A i \in 1..Len(files) : files[i].stem \in VALID_CLASS_NAMES

\* C13: the built-in class names are registered from the start; when the
\* parse of a unit begins the stem of every unit of the batch is registered;
\* and once a parse has begun the registry does not change.
RegistryCompleteBeforeParse ==
  /\ [](BuiltinClassNames \subseteq VALID_CLASS_NAMES)
  /\ [][ /\ outcomes' # outcomes
              => AllRegistered /\ VALID_CLASS_NAMES' = VALID_CLASS_NAMES
         /\ outcomes # <<>> => VALID_CLASS_NAMES' = VALID_CLASS_NAMES ]_vars

\* both units of a directory of two files have been parsed
RegistryCompleteBeforeParseWitness ==
  /\ Len(files) = 2
  /\ Len(outcomes) = 2
  /\ phase = "done"

\* C15: an error raised while a unit is parsed leaves generate_compiled_xml
\* as it was raised and ends the run: the unit has no tree and nothing is
\* written for it, and no later unit is parsed; what is written for a unit
\* is the whole tree of its class rule.
FailureLeavesNoOutput ==
  \A i \in 1..Len(outcomes) :
    IF outcomes[i].exc # "none"
      THEN /\ outcomes[i].root_node = <<>>
           /\ outcomes[i].out_file = <<>>
           /\ i = Len(outcomes)
           /\ phase = "failed"
      ELSE /\ outcomes[i].root_node[1].type = "class"
           /\ outcomes[i].out_file = write(outcomes[i].root_node[1], 0)
           /\ LeavesOf(outcomes[i].root_node)
                = LeavesOf(<<Programs[files[i].prog].tree>>)

\* the first unit of a directory of two failed with a syntax error
FailureLeavesNoOutputWitness ==
  /\ Len(files) = 2
  /\ Len(outcomes) = 1
  /\ outcomes[1].exc = "JackSyntaxError"
  /\ phase = "failed"

\* the programs whose statement is `let 5 = 1;`: the integer `5` stands
\* where the grammar has a variable name
LetFivePrograms ==
  { p \in 1..Len(Programs) :
      Programs[p].tree = ClassOf("Main", <<FunctionOf(<<LetFive>>)>>) }

\* the 1-based line of the character at file offset at
LineOf(text, at) == 1 + Cardinality({ j \in 1..at : text[j] = "\n" })

\* C16: a unit with a token the grammar does not allow ends with a
\* JackSyntaxError, and every JackSyntaxError reports the 1-based line of
\* the token it found.
SyntaxErrorReportsLine ==
  \A i \in 1..Len(outcomes) :
    /\ files[i].cut = 0 /\ files[i].prog \in LetFivePrograms
         => outcomes[i].exc = "JackSyntaxError"
    /\ outcomes[i].exc = "JackSyntaxError"
         => outcomes[i].line = LineOf(files[i].text, outcomes[i].found.at)

(***************************************************************************)
(* One syntax element at work on a phrase: a client makes a Tokenizer on   *)
(* the phrase, asks the element whether it matches, takes tokens itself    *)
(* and calls the element's resolve.  A phrase is the derivation `nodes` of *)
(* its first tokens from the element `of` in the grammar (no derivation    *)
(* when the tokens are not grammatical) and the terminals `after` it.      *)
(***************************************************************************)
Phrase(of, nodes, after) == [of |-> of, nodes |-> nodes, after |-> after]

term(children) == N("term", children)

Phrases ==
  << \* x ;
     Phrase(NonTerminalSyntax("term"), <<term(<<id("x")>>)>>, <<sym(";")>>),
     \* x [ y ] ;
     Phrase(NonTerminalSyntax("term"),
            <<term(<<id("x"), sym("["), varTerm("y"), sym("]")>>)>>,
            <<sym(";")>>),
     \* foo ( ) ;
     Phrase(NonTerminalSyntax("term"),
            <<term(<<id("foo"), sym("("), NoArgs, sym(")")>>)>>,
            <<sym(";")>>),
     \* foo . bar ( ) ;
     Phrase(NonTerminalSyntax("term"),
            <<term(<<id("foo"), sym("."), id("bar"), sym("("), NoArgs,
                     sym(")")>>)>>,
            <<sym(";")>>),
     \* x + y ;
     Phrase(NonTerminalSyntax("expression"),
            <<N("expression",
                <<term(<<id("x")>>), sym("+"), term(<<id("y")>>)>>)>>,
            <<sym(";")>>),
     \* let 5 = 1 ;
     Phrase(NonTerminalSyntax("letStatement"), <<>>,
            <<kw("let"), int("5"), sym("="), int("1"), sym(";")>>),
     \* let x = y ; }
     Phrase(NonTerminalSyntax("letStatement"), <<LetOf(varTerm("y"))>>,
            <<sym("}")>>),
     \* int x
     Phrase(Type_, <<kw("int")>>, <<id("x")>>),
     \* , x , y ;
     Phrase(OptionalOrMore(<<Symbol(","), VarName>>),
            <<sym(","), id("x"), sym(","), id("y")>>, <<sym(";")>>),
     \* [ x ;
     Phrase(Optional(<<Symbol("["), NonTerminalSyntax("expression"),
                       Symbol("]")>>),
            <<>>, <<sym("["), id("x"), sym(";")>>),
     \* "hi" ;
     Phrase(StringConstant, <<str("hi")>>, <<sym(";")>>) >>

\* the elements a client works with: terminals, rules, and the sequences,
\* alternations, optional and repeated groups the rules are made of
Elements ==
  { Symbol(","), Keyword("let"), VarName, ClassName, IntegerConstant,
    StringConstant,
    NonTerminalSyntax("term"), NonTerminalSyntax("expression"),
    NonTerminalSyntax("letStatement"),
    Serial(<<VarName, Symbol("["), NonTerminalSyntax("expression"),
             Symbol("]")>>),
    Type_, SubroutineCall, make_syntax("term")[1],
    Optional(<<Symbol("["), NonTerminalSyntax("expression"), Symbol("]")>>),
    OptionalOrMore(<<Symbol(","), VarName>>) }

\* the text of phrase i in a style
PhraseText(i, style) ==
  Join(style, LeavesOf(Phrases[i].nodes) \o Phrases[i].after, 1)

\* a client asks a match at most MaxMatches times
MaxMatches == 2

InitSyntax ==
  /\ element \in { [e |-> e, phrase |-> i, style |-> style] :
                     e \in Elements, i \in 1..Len(Phrases), style \in Styles }
  /\ tokenizer = Tokenizer(PhraseText(element.phrase, element.style))
  /\ lexed = Lexed(tokenizer.source_file.text)
  /\ status = "run"
  /\ consumed = <<>>
  /\ last = NoCall
  /\ prev = NoCall
  /\ matched = <<>>
  /\ resolved = NoResult
  /\ root_node = NoNode
  /\ out_file = <<>>
  /\ files = <<>>
  /\ VALID_CLASS_NAMES = BuiltinClassNames
  /\ phase = "idle"
  /\ collected = 0
  /\ outcomes = <<>>
  /\ translator = NoTranslator
  /\ code_writer = NoCodeWriter

\* match with the token taken from the stream by next()
Syntax_match_by_next(e, t, index) ==
  Only({ IF p.exc # "none"
           THEN [t |-> p.t, value |-> FALSE, exc |-> p.exc, msg |-> p.msg]
         ELSE IF p.tok = None
           THEN [t |-> p.t, value |-> FALSE, exc |-> "AttributeError",
                 msg |-> NoneType]
         ELSE [t |-> p.t, value |-> match(e, p.tok), exc |-> "none",
               msg |-> ""]
         : p \in {Tokenizer_next(t)} })

\* match(tokenizer, index): the element is asked about the token
\* tokenizer.peek(index) returns
Syntax_match(e, t, index) ==
  Only({ IF p.exc # "none"
           THEN [t |-> p.t, value |-> FALSE, exc |-> p.exc, msg |-> p.msg]
         ELSE IF p.tok = None
           THEN [t |-> p.t, value |-> FALSE, exc |-> "AttributeError",
                 msg |-> NoneType]
         ELSE [t |-> p.t, value |-> match(e, p.tok), exc |-> "none",
               msg |-> ""]
         : p \in {Tokenizer_peek(t, index)} })

\* the client asks element.e whether it matches at offset index
Match(index) ==
  /\ status = "run"
  /\ resolved = NoResult
  /\ Len(matched) < MaxMatches
  /\ \E r \in {Syntax_match(element.e, tokenizer, index)} :
       /\ tokenizer' = r.t
       /\ matched' = IF r.exc = "none" THEN Append(matched, r.value)
                     ELSE matched
       /\ status' = IF r.exc = "AttributeError" THEN "error"
                    ELSE StatusAfter(r, FALSE)
       /\ last' = [op |-> "match", index |-> index, tok |-> None,
                   exc |-> r.exc, msg |-> r.msg, n |-> Len(consumed)]
       /\ prev' = last
  /\ UNCHANGED <<consumed, lexed, element, resolved>>
  /\ UNCHANGED batch_vars
  /\ UNCHANGED write_vars
  /\ UNCHANGED assembler_vars
  /\ UNCHANGED vm_vars

\* the tokens next() returns from Tokenizer t on
Rest(t) == tokens_loop(t, <<>>).tokens

\* the client calls element.e.resolve(tokenizer); from, before and rest are
\* history: the Tokenizer before the call, and the tokens the Tokenizer had
\* yet to return before the call and after it
Resolve ==
  /\ status = "run"
  /\ resolved = NoResult
  /\ \E r \in {resolve(element.e, tokenizer)} :
       /\ tokenizer' = r.t
       /\ resolved' = [exc |-> r.exc, msg |-> r.msg, line |-> r.line,
                       types |-> r.types, found |-> r.found,
                       nodes |-> r.nodes, from |-> tokenizer,
                       before |-> Rest(tokenizer),
                       rest |-> Rest(r.t)]
       /\ status' = IF r.exc \in {"none", "diverges", "TokenizerError"}
                      THEN StatusAfter(r, FALSE) ELSE "error"
       /\ last' = [op |-> "resolve", index |-> 0, tok |-> None,
                   exc |-> r.exc, msg |-> r.msg, n |-> Len(consumed)]
       /\ prev' = last
  /\ UNCHANGED <<consumed, lexed, element, matched>>
  /\ UNCHANGED batch_vars
  /\ UNCHANGED write_vars
  /\ UNCHANGED assembler_vars
  /\ UNCHANGED vm_vars

NextSyntax ==
  \/ Next_
  \/ \E index \in 0..MaxIndex : Match(index)
  \/ Resolve

SpecSyntax == InitSyntax /\ [][NextSyntax]_vars

(***************************************************************************)
(* What the claims about one element are stated about.                     *)
(***************************************************************************)
\* resolve was called on the first token of the phrase, on the element the
\* phrase is a phrase of, and the call is the client's last
ResolvedOwn(e) ==
  /\ last.op = "resolve" /\ last.n = 0
  /\ element.e = e
  /\ Phrases[element.phrase].of = e

\* the tokens of the terminals `after` the derivation of the phrase
After == PlainSeq([i \in 1..Len(Phrases[element.phrase].after) |->
                     [type |-> Phrases[element.phrase].after[i].type,
                      name |-> Phrases[element.phrase].after[i].content]])

\* resolve returned the derivation of the phrase and left the tokens after
\* it in the stream
ResolvedToDerivation ==
  /\ resolved.exc = "none"
  /\ resolved.nodes = Phrases[element.phrase].nodes
  /\ PlainSeq(resolved.rest) = After

\* C11: a term that begins with an identifier resolves to the form the next
\* token chooses - the indexed form before '[', a subroutine call before
\* '(' or '.', the bare variable otherwise - and consumes every token of
\* that form.
TermFormByNextToken ==
  ResolvedOwn(NonTerminalSyntax("term")) => ResolvedToDerivation

\* C17: resolving the let statement on `let 5 = 1;` ends with the
\* JackSyntaxError of a failed alternation: "identifier" is among the types
\* it lists and the token it found is the integerConstant `5`.
LetFiveFailsAsAlternation ==
  ResolvedOwn(NonTerminalSyntax("letStatement"))
    /\ LeavesOf(Phrases[element.phrase].after) = LeavesOf(<<LetFive>>)
    => /\ resolved.exc = "JackSyntaxError"
       /\ \E k \in 1..Len(resolved.types) : resolved.types[k] = "identifier"
       /\ Plain(resolved.found)
            = [type |-> "integerConstant", name |-> <<"5">>]

\* C18: an expression resolves to a term followed by every (operator, term)
\* pair that follows it: `x + y` resolves to one expression node with the
\* three children term, symbol, term, and both terms and the operator are
\* consumed.
ExpressionTakesOperators ==
  ResolvedOwn(NonTerminalSyntax("expression"))
    => /\ ResolvedToDerivation
       /\ Len(resolved.nodes[1].children) = 3

\* C19: a match that returns - true or false, for a terminal, a rule, a
\* sequence, an alternation, an optional or a repeated group, at any
\* offset - leaves the tokens that the following next() calls return as
\* they were before it.
MatchConsumesNothing ==
  [][matched' # matched => Rest(tokenizer') = Rest(tokenizer)]_vars

\* a match at offset 0 returned true, one at offset 1 returned false, and
\* next() then returned the first token of the phrase
MatchConsumesNothingWitness ==
  /\ matched = <<TRUE, FALSE>>
  /\ last.op = "next"
  /\ prev.op = "match" /\ prev.index = 1
  /\ Len(consumed) = 1
  /\ Plain(consumed[1]) = Plain(lexed.all.tokens[1])

\* the terminals of the nodes resolve returned, left to right, as tokens
ResolvedLeaves ==
  [i \in 1..Len(LeavesOf(resolved.nodes)) |->
     [type |-> LeavesOf(resolved.nodes)[i].type,
      name |-> LeavesOf(resolved.nodes)[i].content]]

\* C20: after a resolve that returned, the terminals of the returned nodes,
\* left to right, are the tokens the call took from the stream, in the
\* order it took them: followed by the tokens still to come they are the
\* tokens that were to come before the call.
LeavesAreConsumedTokens ==
  resolved # NoResult /\ resolved.exc = "none"
    => ResolvedLeaves \o PlainSeq(resolved.rest) = PlainSeq(resolved.before)

\* the repeated group `, name` resolved on `, x , y ;`: it returned four
\* terminals and the `;` it peeked is still to come
LeavesAreConsumedTokensWitness ==
  /\ resolved # NoResult /\ resolved.exc = "none"
  /\ element.e = OptionalOrMore(<<Symbol(","), VarName>>)
  /\ Len(ResolvedLeaves) = 4
  /\ PlainSeq(resolved.rest) = After
  /\ last.op = "resolve"
  /\ tokenizer.buffered_tokens # <<>>

\* the last call was the resolve of an element of class k, with a token
\* still to come
ResolvedKind(k) ==
  /\ last.op = "resolve"
  /\ element.e.k = k
  /\ resolved.before # <<>>

\* the members of the element whose match is true on the next token
Matching ==
  { i \in 1..Len(element.e.seq) :
      match(element.e.seq[i], resolved.before[1]) }

\* the call ended as r, the resolve of a member, ends
EndedAs(r) ==
  /\ resolved.exc = r.exc
  /\ resolved.nodes = r.nodes
  /\ resolved.rest = Rest(r.t)

\* C21: an alternation resolves the first of its members, in declared
\* order, that matches the next token, and nothing else; when no member
\* matches it takes no token and fails with the syntax error that lists the
\* type of every member and the token found.
AlternationResolvesFirstMatch ==
  ResolvedKind("OneOf") =>
    IF Matching = {}
      THEN /\ resolved.exc = "JackSyntaxError"
           /\ resolved.types
                = [i \in 1..Len(element.e.seq) |-> element.e.seq[i].type]
           /\ \A i \in 1..Len(element.e.seq) : element.e.seq[i].type # NoType
           /\ Plain(resolved.found) = Plain(resolved.before[1])
           /\ resolved.rest = resolved.before
      ELSE \E i \in Matching :
             /\ \A j \in Matching : i <= j
             /\ EndedAs(resolve(element.e.seq[i], resolved.from))

\* C22: the resolve of an optional group never fails, whatever is still to
\* come (nothing at all, or a group that breaks off after its first
\* element); it resolves the elements of the group when the first of them
\* matches the next token, and otherwise returns no node and takes no token.
OptionalNeverFails ==
  last.op = "resolve" /\ element.e.k = "Optional" =>
    /\ resolved.exc = "none"
    /\ IF resolved.before # <<>>
            /\ match(element.e.seq[1], resolved.before[1])
         THEN EndedAs(resolve(Serial(element.e.seq), resolved.from))
         ELSE resolved.nodes = <<>> /\ resolved.rest = resolved.before

\* C23: the resolve of a repeated group never fails and always returns: it
\* resolves the group as long as the first element of the group matches the
\* next token, and stops, with that token not taken, where it does not (or
\* where no token is left).
RepetitionNeverFails ==
  last.op = "resolve" /\ element.e.k = "OptionalOrMore" =>
    /\ resolved.exc = "none"
    /\ resolved.rest # <<>>
         => ~match(element.e.seq[1], resolved.rest[1])
    /\ ResolvedLeaves \o PlainSeq(resolved.rest) = PlainSeq(resolved.before)

\* the token a match at offset last.index was asked about
Asked == lexed.all.tokens[last.n + last.index + 1]

\* C24: the match of a Keyword, Symbol, Identifier, IntegerConstant or
\* StringConstant element is true exactly when the token is of the
\* element's type and, for Keyword and Symbol, has the element's spelling.
TerminalMatchesByKind ==
  /\ last.op = "match" /\ last.exc = "none"
  /\ element.e.k \in {"Keyword", "Symbol", "Identifier", "IntegerConstant",
                      "StringConstant"}
  => matched[Len(matched)]
       = (/\ Asked.type = element.e.type
          /\ element.e.k \in {"Keyword", "Symbol"}
               => Asked.name = element.e.name)

(***************************************************************************)
(* The serialization of a node: a caller holds a node and calls its write  *)
(* on an open, empty file.                                                 *)
(***************************************************************************)
\* the text of a written terminal has at most MaxContent characters
MaxContent == 2

\* a written non-terminal has at most MaxChildren children
MaxChildren == 2

\* the four escaped characters and one that is not
ContentChars == {"&", "<", ">", "\"", "a"}

RECURSIVE SeqsUpTo(_, _)
SeqsUpTo(S, n) ==
  IF n = 0 THEN {<<>>}
  ELSE SeqsUpTo(S, n - 1)
         \cup { Append(q, x) : q \in SeqsUpTo(S, n - 1), x \in S }

Terminals ==
  { TerminalNode([type |-> type_, name |-> content]) :
      type_ \in {"symbol", "stringConstant"},
      content \in SeqsUpTo(ContentChars, MaxContent) }

\* terminals as a tokenizer produces them
Children == {sym("<"), str("hi")}

Terms == { N("term", children) : children \in SeqsUpTo(Children, MaxChildren) }

Expressions ==
  { N("expression", children) :
      children \in SeqsUpTo(Children \cup Terms, MaxChildren) }

Nodes == Terminals \cup Terms \cup Expressions

InitWrite ==
  /\ root_node \in Nodes
  /\ out_file = <<>>
  /\ tokenizer = Tokenizer(<<>>)
  /\ lexed = Lexed(<<>>)
  /\ status = "run"
  /\ consumed = <<>>
  /\ last = NoCall
  /\ prev = NoCall
  /\ files = <<>>
  /\ VALID_CLASS_NAMES = BuiltinClassNames
  /\ phase = "idle"
  /\ collected = 0
  /\ outcomes = <<>>
  /\ element = NoElement
  /\ matched = <<>>
  /\ resolved = [exc |-> "not called"]
  /\ translator = NoTranslator
  /\ code_writer = NoCodeWriter

\* root_node.write(out_file)
Node_write ==
  /\ root_node # NoNode
  /\ out_file = <<>>
  /\ out_file' = write(root_node, 0)
  /\ UNCHANGED root_node
  /\ UNCHANGED stream_vars
  /\ UNCHANGED batch_vars
  /\ UNCHANGED element_vars
  /\ UNCHANGED assembler_vars
  /\ UNCHANGED vm_vars

NextWrite == Node_write

SpecWrite == InitWrite /\ [][NextWrite]_vars

\* the entity of an escaped character; any other character stands for itself
Entity(c) ==
  CASE c = "&" -> <<"&", "a", "m", "p", ";">>
    [] c = "<" -> <<"&", "l", "t", ";">>
    [] c = ">" -> <<"&", "g", "t", ";">>
    [] c = "\"" -> <<"&", "q", "u", "o", "t", ";">>
    [] OTHER -> <<c>>

\* the text with each of its characters replaced once
RECURSIVE EscapedOnce(_)
EscapedOnce(content) ==
  IF content = <<>> THEN <<>>
  ELSE Entity(Head(content)) \o EscapedOnce(Tail(content))

\* the lines of a node at a level: one line for a terminal; for a
\* non-terminal the opening tag, the lines of its children in their order
\* one level deeper, the closing tag
RECURSIVE LinesOf(_, _), LinesOfEach(_, _)
LinesOf(node, level) ==
  IF node.cls = "TerminalNode"
    THEN << [level |-> level,
             text |-> <<"<", node.type, ">", " ">>
                        \o EscapedOnce(node.content)
                        \o <<" ", "<", "/", node.type, ">">>] >>
    ELSE << [level |-> level, text |-> <<"<", node.type, ">">>] >>
           \o LinesOfEach(node.children, level + 1)
           \o << [level |-> level, text |-> <<"<", "/", node.type, ">">>] >>

LinesOfEach(children, level) ==
  IF children = <<>> THEN <<>>
  ELSE LinesOf(Head(children), level)
         \o LinesOfEach(Tail(children), level)

\* the characters of lines: each with two spaces for each level before its
\* text and a newline after it
RECURSIVE Flat(_)
Flat(lines) ==
  IF lines = <<>> THEN <<>>
  ELSE [i \in 1..(2 * Head(lines).level) |-> " "] \o Head(lines).text
         \o <<"\n">> \o Flat(Tail(lines))

\* C14: a written terminal is the one line `<kind> text </kind>` with every
\* `&`, `<`, `>` and `"` of the text replaced by its entity once; a written
\* non-terminal is its opening tag, its children in their stored order one
\* level deeper, and its closing tag at its own level.
WrittenAsSpecified ==
  out_file # <<>> => out_file = Flat(LinesOf(root_node, 0))

\* a non-terminal whose second child is nested and holds `<` has been
\* written, as has a terminal whose text is `&<`
WrittenAsSpecifiedWitness ==
  /\ out_file # <<>>
  /\ \/ /\ root_node.cls = "NonTerminalNode"
        /\ Len(root_node.children) = 2
        /\ root_node.children[2] = N("term", <<sym("<")>>)
     \/ /\ root_node.cls = "TerminalNode"
        /\ root_node.content = <<"&", "<">>


(***************************************************************************)
(* The assembler (06_assembler/assembler.py).  A line of assembly is the   *)
(* sequence of its characters, as clean_up leaves it: without spaces and   *)
(* comments, and not empty.  A map of the SymbolResolver is a function     *)
(* from symbols to addresses.                                              *)
(***************************************************************************)
Put(map, key, value) ==
  [x \in DOMAIN map \cup {key} |-> IF x = key THEN value ELSE map[x]]

\* "R" + str(i) for i in range(16)
RName(i) == <<"R">> \o (IF i < 10 THEN <<>> ELSE <<"1">>)
                    \o <<CHOOSE c \in Digits : DigitValue(c) = i % 10>>

Predefined ==
  {<<"S", "P">>, <<"L", "C", "L">>, <<"A", "R", "G">>,
   <<"T", "H", "I", "S">>, <<"T", "H", "A", "T">>,
   <<"S", "C", "R", "E", "E", "N">>, <<"K", "B", "D">>}
    \cup {RName(i) : i \in 0..15}

\* SymbolResolver.__init__
SymbolResolver ==
  [var_map |->
     [x \in Predefined |->
        CASE x = <<"S", "P">> -> 0
          [] x = <<"L", "C", "L">> -> 1
          [] x = <<"A", "R", "G">> -> 2
          [] x = <<"T", "H", "I", "S">> -> 3
          [] x = <<"T", "H", "A", "T">> -> 4
          [] x = <<"S", "C", "R", "E", "E", "N">> -> 16384
          [] x = <<"K", "B", "D">> -> 24576
          [] OTHER -> CHOOSE i \in 0..15 : x = RName(i)],
   label_map |-> <<>>,
   empty_address |-> 16]

\* SymbolResolver.add_label
add_label(resolver, label, line_num) ==
  [resolver EXCEPT !.label_map = Put(@, label, line_num)]

\* SymbolResolver.resolve: the resolver after the call, the address
\* returned and the exception raised
SymbolResolver_resolve(resolver, symbol) ==
  IF symbol \in DOMAIN resolver.var_map /\ symbol \in DOMAIN resolver.label_map
    THEN [resolver |-> resolver, value |-> 0, exc |-> "AssertionError"]
  ELSE IF symbol \in DOMAIN resolver.label_map
    THEN [resolver |-> resolver, value |-> resolver.label_map[symbol],
          exc |-> "none"]
  ELSE IF symbol \notin DOMAIN resolver.var_map
    THEN IF resolver.empty_address < 16384
           THEN [resolver |->
                   [resolver EXCEPT
                      !.var_map = Put(@, symbol, resolver.empty_address),
                      !.empty_address = @ + 1],
                 value |-> resolver.empty_address, exc |-> "none"]
           ELSE [resolver |-> resolver, value |-> 0, exc |-> "AssertionError"]
  ELSE [resolver |-> resolver, value |-> resolver.var_map[symbol],
        exc |-> "none"]

\* AInstruction(asm_line, resolver): the instruction, the resolver after
\* its parse and the exception raised
AInstruction(asm_line, resolver) ==
  IF Len(asm_line) <= 1
    THEN [ins |-> [k |-> "A", symbol |-> <<>>, value |-> 0],
          resolver |-> resolver, exc |-> "AssertionError"]
  ELSE IF int_ok(Tail(asm_line), 1)
    THEN [ins |-> [k |-> "A", symbol |-> <<>>,
                   value |-> int_value(Tail(asm_line), 1, 0)],
          resolver |-> resolver, exc |-> "none"]
  ELSE Only({ [ins |-> [k |-> "A", symbol |-> Tail(asm_line),
                        value |-> r.value],
               resolver |-> r.resolver, exc |-> r.exc]
              : r \in {SymbolResolver_resolve(resolver, Tail(asm_line))} })

\* CInstruction(asm_line); its bit fields are not modelled
CInstruction(asm_line) == [k |-> "C", symbol |-> asm_line, value |-> 0]

\* line[1:-1]
label_name(line) == SubSeq(line, 2, Len(line) - 1)

\* next_line_num with the label lines counted as instructions
next_line_num_counts_labels(line, line_num) == line_num + 1

\* lines 200-205: line_num after a line; only instructions are counted
next_line_num(line, line_num) ==
  IF line[1] = "(" THEN line_num ELSE line_num + 1

\* parse_lines, lines 198-205: process labels first
RECURSIVE labels_loop(_, _, _, _)
labels_loop(lines, i, line_num, resolver) ==
  IF i > Len(lines) THEN [resolver |-> resolver, exc |-> "none"]
  ELSE IF lines[i][1] = "("
    THEN IF lines[i][Len(lines[i])] # ")"
           THEN [resolver |-> resolver, exc |-> "AssertionError"]
           ELSE labels_loop(lines, i + 1, next_line_num(lines[i], line_num),
                            add_label(resolver, label_name(lines[i]),
                                      line_num))
  ELSE labels_loop(lines, i + 1, next_line_num(lines[i], line_num), resolver)

\* parse_lines, lines 207-211: process A and C instructions
RECURSIVE instructions_loop(_, _, _, _)
instructions_loop(lines, i, resolver, instructions) ==
  IF i > Len(lines)
    THEN [resolver |-> resolver, instructions |-> instructions,
          exc |-> "none"]
  ELSE IF lines[i][1] = "@"
    THEN Only({ IF a.exc # "none"
                  THEN [resolver |-> a.resolver,
                        instructions |-> instructions, exc |-> a.exc]
                  ELSE instructions_loop(lines, i + 1, a.resolver,
                                         Append(instructions, a.ins))
                : a \in {AInstruction(lines[i], resolver)} })
  ELSE IF lines[i][1] # "("
    THEN instructions_loop(lines, i + 1, resolver,
                           Append(instructions, CInstruction(lines[i])))
  ELSE instructions_loop(lines, i + 1, resolver, instructions)

\* Translator.parse_lines
parse_lines(t) ==
  Only({ IF first.exc # "none"
           THEN [t EXCEPT !.parsed = TRUE, !.resolver = first.resolver,
                          !.exc = first.exc]
           ELSE Only({ [t EXCEPT !.parsed = TRUE,
                                 !.resolver = second.resolver,
                                 !.instructions = second.instructions,
                                 !.exc = second.exc]
                       : second \in {instructions_loop(t.assembly_lines, 1,
                                       first.resolver, t.instructions)} })
         : first \in {labels_loop(t.assembly_lines, 1, 0, t.resolver)} })

\* Translator() after from_file and clean_up gave it these lines
Translator(lines) ==
  [parsed |-> FALSE, exc |-> "none", assembly_lines |-> lines,
   instructions |-> <<>>, resolver |-> SymbolResolver]

(***************************************************************************)
(* The programs assembled.  A program is what clean_up leaves of a Hack    *)
(* program: its symbols are not numbers, it declares a label at most once  *)
(* and no predefined symbol as a label.                                    *)
(***************************************************************************)
\* the most lines of a program
MaxLines == 4

UserSymbols == {<<"X">>, <<"Y">>, <<"i">>}

Use(symbol) == <<"@">> \o symbol

Declare(symbol) == <<"(">> \o symbol \o <<")">>

IsLabelLine(line) == line[1] = "("

AsmLines ==
  {Use(x) : x \in UserSymbols} \cup {Declare(x) : x \in {<<"X">>, <<"Y">>}}
    \cup {Use(<<"R", "1">>), Use(<<"1", "7">>), <<"D", "=", "M">>}

RECURSIVE LineSeqs(_)
LineSeqs(n) ==
  IF n = 0 THEN {<<>>}
  ELSE LineSeqs(n - 1)
         \cup {Append(x, y) : x \in LineSeqs(n - 1), y \in AsmLines}

AsmPrograms ==
  { lines \in LineSeqs(MaxLines) :
      \A i, j \in 1..Len(lines) :
        IsLabelLine(lines[i]) /\ lines[i] = lines[j] => i = j }

InitAssemble ==
  /\ translator \in {Translator(lines) : lines \in AsmPrograms}
  /\ tokenizer = Tokenizer(<<>>)
  /\ lexed = Lexed(<<>>)
  /\ status = "run"
  /\ consumed = <<>>
  /\ last = NoCall
  /\ prev = NoCall
  /\ files = <<>>
  /\ VALID_CLASS_NAMES = BuiltinClassNames
  /\ phase = "idle"
  /\ collected = 0
  /\ outcomes = <<>>
  /\ element = NoElement
  /\ matched = <<>>
  /\ resolved = NoResult
  /\ root_node = NoNode
  /\ out_file = <<>>
  /\ code_writer = NoCodeWriter

\* translator.parse_lines()
Translator_parse_lines ==
  /\ translator # NoTranslator
  /\ ~translator.parsed
  /\ translator' = parse_lines(translator)
  /\ UNCHANGED stream_vars
  /\ UNCHANGED batch_vars
  /\ UNCHANGED element_vars
  /\ UNCHANGED write_vars
  /\ UNCHANGED vm_vars

NextAssemble == Translator_parse_lines

SpecAssemble == InitAssemble /\ [][NextAssemble]_vars

\* the lines of the program that are instructions, by their places in it
InstructionPlaces ==
  { i \in 1..Len(translator.assembly_lines) :
      ~IsLabelLine(translator.assembly_lines[i]) }

\* the place in the program of the instruction of index n (from 0)
PlaceOf(n) ==
  CHOOSE i \in InstructionPlaces :
    Cardinality({j \in InstructionPlaces : j < i}) = n

\* the symbols the program declares as labels, and where
Declared == { label_name(translator.assembly_lines[i]) :
                i \in 1..Len(translator.assembly_lines) \ InstructionPlaces }

DeclaredAt(symbol) ==
  CHOOSE i \in 1..Len(translator.assembly_lines) :
    translator.assembly_lines[i] = Declare(symbol)

\* the symbols used that are variables
IsVariable(symbol) ==
  /\ symbol # <<>>
  /\ symbol \notin Declared
  /\ symbol \notin Predefined

\* the distinct variables whose first use is before instruction n
VariablesBefore(n) ==
  { translator.instructions[m].symbol : m \in
      { m \in 1..(n - 1) : /\ translator.instructions[m].k = "A"
                           /\ IsVariable(translator.instructions[m].symbol) } }

RECURSIVE format(_)
format(n) ==
  (IF n < 10 THEN <<>> ELSE format(n \div 10))
    \o <<CHOOSE c \in Digits : DigitValue(c) = n % 10>>

\* line.replace(old, new)
RECURSIVE str_replace(_, _, _)
str_replace(line, old, new) ==
  IF Len(line) < Len(old) THEN line
  ELSE IF SubSeq(line, 1, Len(old)) = old
    THEN new \o str_replace(SubSeq(line, Len(old) + 1, Len(line)), old, new)
  ELSE <<Head(line)>> \o str_replace(Tail(line), old, new)

\* old in line
In(old, line) ==
  \E i \in 1..(Len(line) - Len(old) + 1) :
    SubSeq(line, i, i + Len(old) - 1) = old

\* CMP_TEMPLATE.format(jump=jump)
CMP_TEMPLATE(jump) ==
  <<<<"@", "S", "P">>, <<"A", "M", "=", "M", "-", "1">>, <<"D", "=", "M">>,
    <<"A", "=", "A", "-", "1">>, <<"D", "=", "M", "-", "D">>,
    <<"@", "I", "F", "G", "O", "T", "O">>, <<"D", ";">> \o jump,
    <<"@", "S", "P">>, <<"A", "=", "M", "-", "1">>, <<"M", "=", "0">>,
    <<"@", "E", "N", "D", "I", "F">>, <<"0", ";", "J", "M", "P">>,
    <<"(", "I", "F", "G", "O", "T", "O", ")">>, <<"@", "S", "P">>,
    <<"A", "=", "M", "-", "1">>, <<"M", "=", "-", "1">>,
    <<"(", "E", "N", "D", "I", "F", ")">>>>

Command(ctype, arg1, arg2) == [ctype |-> ctype, arg1 |-> arg1, arg2 |-> arg2]

\* the operations of ARITHMETIC_TRANSLATIONS the commands below use
ARITHMETIC_TRANSLATIONS(arg1) ==
  CASE arg1 = <<"e", "q">> -> CMP_TEMPLATE(<<"J", "E", "Q">>)
    [] arg1 = <<"g", "t">> -> CMP_TEMPLATE(<<"J", "G", "T">>)
    [] arg1 = <<"l", "t">> -> CMP_TEMPLATE(<<"J", "L", "T">>)
    [] arg1 = <<"a", "d", "d">> ->
         <<<<"@", "S", "P">>, <<"A", "M", "=", "M", "-", "1">>,
           <<"D", "=", "M">>, <<"A", "=", "A", "-", "1">>,
           <<"M", "=", "D", "+", "M">>>>

\* CodeWriter.__init__
CodeWriter ==
  [file |-> <<>>, vm_filename |-> <<>>, function_name |-> <<>>,
   label_counter |-> <<>>, rtn_addr_counter |-> 0, sys_init_found |-> FALSE]

Translated(w, translation) == [w |-> w, translation |-> translation]

\* _add_unique_label with a counter that is set to 1 and never grows
add_unique_label_counter_stuck(w, translation, base_label) ==
  Translated([w EXCEPT !.label_counter = Put(@, base_label, 1)],
             [i \in 1..Len(translation) |->
                str_replace(translation[i], base_label,
                            base_label \o <<"_">> \o format(1))])

\* CodeWriter._add_unique_label
add_unique_label(w, translation, base_label) ==
  Only({ Translated([w EXCEPT !.label_counter = Put(@, base_label, n)],
                    [i \in 1..Len(translation) |->
                       str_replace(translation[i], base_label,
                                   base_label \o <<"_">> \o format(n))])
         : n \in {IF base_label \in DOMAIN w.label_counter
                    THEN w.label_counter[base_label] + 1 ELSE 1} })

\* base_label in translation
Has(translation, base_label) ==
  \E i \in 1..Len(translation) : In(base_label, translation[i])

\* CodeWriter._write_arithmetic, up to the write to the file
write_arithmetic(w, command) ==
  Only({ Only({ IF Has(a.translation, <<"I", "F", "G", "O", "T", "O">>)
                  THEN add_unique_label(a.w, a.translation,
                                        <<"I", "F", "G", "O", "T", "O">>)
                  ELSE a
                : a \in {IF Has(t, <<"E", "N", "D", "I", "F">>)
                           THEN add_unique_label(w, t,
                                                 <<"E", "N", "D", "I", "F">>)
                           ELSE Translated(w, t)} })
         : t \in {ARITHMETIC_TRANSLATIONS(command.arg1)} })

push_D ==
  <<<<"@", "S", "P">>, <<"A", "=", "M">>, <<"M", "=", "D">>,
    <<"@", "S", "P">>, <<"M", "=", "M", "+", "1">>>>

\* the translation of _formulate_call
call_translation(return_address, function, num_args) ==
  <<<<"@">> \o return_address, <<"D", "=", "A">>>>
    \o push_D
    \o <<<<"@", "L", "C", "L">>, <<"D", "=", "M">>>>
    \o push_D
    \o <<<<"@", "A", "R", "G">>, <<"D", "=", "M">>>>
    \o push_D
    \o <<<<"@", "T", "H", "I", "S">>, <<"D", "=", "M">>>>
    \o push_D
    \o <<<<"@", "T", "H", "A", "T">>, <<"D", "=", "M">>>>
    \o push_D
    \o <<<<"@">> \o format(num_args + 5), <<"D", "=", "A">>, <<"@", "S", "P">>,
        <<"D", "=", "M", "-", "D">>, <<"@", "A", "R", "G">>,
        <<"M", "=", "D">>, <<"@", "S", "P">>, <<"D", "=", "M">>,
        <<"@", "L", "C", "L">>, <<"M", "=", "D">>, <<"@">> \o function,
        <<"0", ";", "J", "M", "P">>, <<"(">> \o return_address \o <<")">>>>

\* CodeWriter._formulate_call
formulate_call(w, command) ==
  Only({ Translated([w EXCEPT !.rtn_addr_counter = n],
                    call_translation(
                      <<"R", "E", "T", "U", "R", "N", "_", "A", "D", "D", "R",
                        "E", "S", "S", "_">> \o format(n),
                      command.arg1, command.arg2))
         : n \in {w.rtn_addr_counter + 1} })

\* lines 249-255: push 0
push_0 ==
  <<<<"@", "S", "P">>, <<"A", "=", "M">>, <<"M", "=", "0">>,
    <<"@", "S", "P">>, <<"M", "=", "M", "+", "1">>>>

\* CodeWriter._write_function, up to the write to the file
write_function(w, command) ==
  Translated([w EXCEPT !.function_name = command.arg1,
                       !.sys_init_found =
                          @ \/ command.arg1
                                 = <<"S", "y", "s", ".", "i", "n", "i", "t">>],
             <<<<"(">> \o command.arg1 \o <<")">>>>
               \o [i \in 1..(Len(push_0) * command.arg2) |->
                     push_0[((i - 1) % Len(push_0)) + 1]])

\* CodeWriter.write: the dispatch on command.ctype and the write to the file
write_command(w, command) ==
  Only({ [r.w EXCEPT !.file =
            Append(@, [command |-> command, translation |-> r.translation])]
         : r \in {CASE command.ctype = "arithmetic" ->
                         write_arithmetic(w, command)
                    [] command.ctype = "call" -> formulate_call(w, command)
                    [] command.ctype = "function" ->
                         write_function(w, command)} })

(***************************************************************************)
(* The commands written through one CodeWriter: comparisons, an operation  *)
(* without labels, calls and a function declaration, in any order.         *)
(***************************************************************************)
\* the most commands written
MaxCommands == 3

Comparisons == {<<"e", "q">>, <<"g", "t">>, <<"l", "t">>}

Commands ==
  {Command("arithmetic", op, 0) : op \in Comparisons \cup {<<"a", "d", "d">>}}
    \cup {Command("call", <<"F", "o", "o">>, 2),
          Command("function", <<"F", "o", "o">>, 1)}

InitTranslate ==
  /\ code_writer = CodeWriter
  /\ translator = NoTranslator
  /\ tokenizer = Tokenizer(<<>>)
  /\ lexed = Lexed(<<>>)
  /\ status = "run"
  /\ consumed = <<>>
  /\ last = NoCall
  /\ prev = NoCall
  /\ files = <<>>
  /\ VALID_CLASS_NAMES = BuiltinClassNames
  /\ phase = "idle"
  /\ collected = 0
  /\ outcomes = <<>>
  /\ element = NoElement
  /\ matched = <<>>
  /\ resolved = NoResult
  /\ root_node = NoNode
  /\ out_file = <<>>

\* code_writer.write(command)
CodeWriter_write(command) ==
  /\ code_writer # NoCodeWriter
  /\ Len(code_writer.file) < MaxCommands
  /\ code_writer' = write_command(code_writer, command)
  /\ UNCHANGED stream_vars
  /\ UNCHANGED batch_vars
  /\ UNCHANGED element_vars
  /\ UNCHANGED write_vars
  /\ UNCHANGED assembler_vars

NextTranslate == \E command \in Commands : CodeWriter_write(command)

SpecTranslate == InitTranslate /\ [][NextTranslate]_vars

\* the writes of comparison commands and of calls
Labelled ==
  { k \in 1..Len(code_writer.file) :
      \/ code_writer.file[k].command.ctype = "call"
      \/ code_writer.file[k].command.arg1 \in Comparisons }

\* the places of the label definitions `(name)` in write k, and their names
Definitions(k) ==
  { i \in 1..Len(code_writer.file[k].translation) :
      code_writer.file[k].translation[i][1] = "(" }

Defined(k) ==
  { label_name(code_writer.file[k].translation[i]) : i \in Definitions(k) }

\* the symbols write k jumps to: a jump goes to the address the A-instruction
\* before it loaded
JumpTargets(k) ==
  { Tail(code_writer.file[k].translation[i - 1]) :
      i \in { i \in 2..Len(code_writer.file[k].translation) :
                In(<<";", "J">>, code_writer.file[k].translation[i]) } }

\* the symbols write k loads that are not registers
Loaded(k) ==
  { Tail(code_writer.file[k].translation[i]) :
      i \in { i \in 1..Len(code_writer.file[k].translation) :
                /\ code_writer.file[k].translation[i][1] = "@"
                /\ ~int_ok(Tail(code_writer.file[k].translation[i]), 1)
                /\ Tail(code_writer.file[k].translation[i])
                     \notin Predefined } }

\* no two label definitions of comparisons and calls have the same name
UniqueLabels ==
  /\ \A k \in Labelled : Cardinality(Defined(k)) = Cardinality(Definitions(k))
  /\ \A k, l \in Labelled : k # l => Defined(k) \cap Defined(l) = {}

\* C30: over the commands written through one CodeWriter no two label
\* definitions of comparisons and calls have the same name, and every jump
\* of a comparison or a call goes to a label that the output of the same
\* command defines.
JumpsStayInCommand ==
  /\ UniqueLabels
  /\ \A k \in Labelled : JumpTargets(k) \subseteq Defined(k)

\* C30 as amended: the labels are unique; every jump of a comparison goes
\* to a label its own output defines; the one jump of a call goes to the
\* called function, and the return address the call pushes is the one
\* label its output defines.
JumpsOfComparisonsStayInCommand ==
  /\ UniqueLabels
  /\ \A k \in Labelled :
       IF code_writer.file[k].command.ctype = "call"
         THEN /\ JumpTargets(k) = {code_writer.file[k].command.arg1}
              /\ Cardinality(Defined(k)) = 1
              /\ Loaded(k) = Defined(k) \cup JumpTargets(k)
         ELSE /\ JumpTargets(k) = Defined(k)
              /\ Cardinality(Defined(k)) = 2
              /\ Loaded(k) = Defined(k)

\* eq, call Foo 2 and eq have been written: the second eq defines ENDIF_2
\* and IFGOTO_2, the call RETURN_ADDRESS_1
JumpsOfComparisonsStayInCommandWitness ==
  /\ Len(code_writer.file) = 3
  /\ code_writer.file[1].command.arg1 = <<"e", "q">>
  /\ code_writer.file[2].command.ctype = "call"
  /\ code_writer.file[3].command.arg1 = <<"e", "q">>
  /\ Defined(3) = {<<"E", "N", "D", "I", "F", "_", "2">>,
                   <<"I", "F", "G", "O", "T", "O", "_", "2">>}
  /\ Defined(2) = {<<"R", "E", "T", "U", "R", "N", "_", "A", "D", "D", "R",
                     "E", "S", "S", "_", "1">>}

====
